---- MODULE Spec2Model ----
(***************************************************************************)
(* Model of agent-memory-proxy: the event-driven synchronisation engine    *)
(* (src/src/sync.py) with the file operations (src/src/file_ops.py) and    *)
(* the mapping table built by the configuration loader                     *)
(* (src/src/config.py).                                                    *)
(*                                                                         *)
(* Paths are sequences of name components; the watched directory is the    *)
(* one-component path <<"R">>.  File contents are sequences of bytes drawn *)
(* from a small alphabet that contains the carriage-return and line-feed   *)
(* bytes and one byte that is not valid UTF-8.  Time is in milliseconds.   *)
(***************************************************************************)
EXTENDS Integers, Sequences, FiniteSets, TLC

\* ------------------------------------------------------------------ bounds
MaxWrites == 2
MaxQueue == 2
MaxTicks == 3
MaxDepth == 7
TickMs == 25
MaxAgents == 3
MaxDeliveries == 3

\* ------------------------------------------------------- program constants
DEBOUNCE_DELAY == 50

AGENT_DEFAULTS ==
    [claude |-> <<"CLAUDE.md">>,
     gemini |-> <<"GEMINI.md">>,
     cursor |-> <<".cursor", "rules", "project.mdc">>,
     qwen   |-> <<"QWEN.md">>]

\* ------------------------------------------------------------------- paths
parent(p) == SubSeq(p, 1, Len(p) - 1)

name(p) == p[Len(p)]

join(d, rel) == d \o rel

is_relative_to(p, d) == Len(p) >= Len(d) /\ SubSeq(p, 1, Len(d)) = d

\* every proper ancestor directory of p, the chain mkdir(parents=True) creates
ancestors(p) == {SubSeq(p, 1, i) : i \in 1..(Len(p) - 1)}

\* ---------------------------------------------------------------- contents
\* bytes -> text as open(path, encoding="utf-8").read() decodes them: in text
\* mode with the default newline=None the sequences CR LF and CR become LF
RECURSIVE universal_newlines(_)
universal_newlines(b) ==
    IF b = <<>> THEN <<>>
    ELSE (IF Head(b) = "CR" THEN <<"LF">> ELSE <<Head(b)>>)
         \o universal_newlines(
                IF Head(b) = "CR" /\ Len(b) >= 2 /\ b[2] = "LF"
                THEN SubSeq(b, 3, Len(b)) ELSE Tail(b))

\* the line separator of the platform (POSIX)
os_linesep == <<"LF">>

\* text -> bytes as open(path, "w", encoding="utf-8").write(text) encodes it:
\* with the default newline=None each LF is written as os.linesep
RECURSIVE translate_newlines(_)
translate_newlines(t) ==
    IF t = <<>> THEN <<>>
    ELSE (IF Head(t) = "LF" THEN os_linesep ELSE <<Head(t)>>)
         \o translate_newlines(Tail(t))

\* the bytes hold a sequence that is not valid UTF-8
undecodable(b) == \E i \in 1..Len(b) : b[i] = "BAD"

\* ---------------------------------------------------------- file operations
\* A world w is [fs, dirs]: fs maps the path of every existing regular file
\* to its bytes, dirs is the set of existing directories.
exists(w, p) == p \in DOMAIN w.fs \/ p \in w.dirs

put(f, p, c) == [q \in DOMAIN f \cup {p} |-> IF q = p THEN c ELSE f[q]]

remove(f, p) == [q \in DOMAIN f \ {p} |-> f[q]]

\* FileOperations.read_file: [ok, text]; not ok stands for the exception it
\* logs and re-raises.  fault is the I/O failure the environment injects into
\* the call: "none", "read" (the source cannot be read), "open" (the target
\* cannot be opened for writing) or "write" (the target was opened, hence
\* truncated, and the write fails)
read_file(w, path, fault) ==
    IF fault = "read" \/ path \notin DOMAIN w.fs \/ undecodable(w.fs[path])
    THEN [ok |-> FALSE, text |-> <<>>]
    ELSE [ok |-> TRUE, text |-> universal_newlines(w.fs[path])]

\* path.parent.mkdir(parents=True, exist_ok=True)
mkdir_parents(w, path) == [w EXCEPT !.dirs = w.dirs \cup ancestors(path)]

\* with open(path, "w") as f: f.write(content), in the world made where the
\* parent directories exist
open_and_write(made, path, content, fault) ==
    IF fault = "open" \/ path \in made.dirs
    THEN [ok |-> FALSE, w |-> made, touched |-> FALSE]
    ELSE IF fault = "write"
    THEN [ok |-> FALSE, w |-> [made EXCEPT !.fs = put(made.fs, path, <<>>)],
          touched |-> TRUE]
    ELSE [ok |-> TRUE,
          w |-> [made EXCEPT
                   !.fs = put(made.fs, path, translate_newlines(content))],
          touched |-> TRUE]

\* FileOperations.write_file: [ok, w, touched]; touched says the file was
\* opened for writing
write_file(w, path, content, fault) ==
    IF \E a \in ancestors(path) : a \in DOMAIN w.fs
    THEN [ok |-> FALSE, w |-> w, touched |-> FALSE]
    ELSE open_and_write(mkdir_parents(w, path), path, content, fault)

\* ------------------------------------------------------------ configuration
\* A mapping table is the dict target -> source in insertion order: a
\* sequence of [target, source] with no target twice.
has_key(m, k) == \E i \in 1..Len(m) : m[i].target = k

\* mappings[target_path] = truth_file: a key already present keeps its place
dict_set(m, k, v) ==
    IF has_key(m, k)
    THEN [i \in 1..Len(m) |-> IF m[i].target = k
                              THEN [target |-> k, source |-> v] ELSE m[i]]
    ELSE Append(m, [target |-> k, source |-> v])

\* ConfigValidator.create_mappings
RECURSIVE create_mappings(_, _)
create_mappings(agents, truth_file) ==
    IF agents = <<>> THEN <<>>
    ELSE dict_set(create_mappings(SubSeq(agents, 1, Len(agents) - 1),
                                  truth_file),
                  AGENT_DEFAULTS[agents[Len(agents)]], truth_file)

\* MemoryProxyConfig.__init__ for the configuration file directory/.amp.yaml
\* holding the validated agents list, truth_memory_file and respect_gitignore;
\* recursive is the attribute of the loaded configuration
MemoryProxyConfig(directory, agents, truth_file, respect, rec) ==
    [directory |-> directory,
     mappings |-> create_mappings(agents, truth_file),
     recursive |-> rec,
     respect_gitignore |-> respect,
     truth_memory_file |-> truth_file]

\* ---------------------------------------------------------------- gitignore
\* A pattern line is [name, dir_only, negated]: "docs/" is
\* [name |-> "docs", dir_only |-> TRUE, negated |-> FALSE].  gi maps each
\* directory that holds a .gitignore file to its lines.

\* the names that end in ".tmp"
TmpNames == {"keep.tmp", "other.tmp", "new.tmp"}

\* the glob of a pattern line against one path component: "*.tmp" matches
\* every name with that ending, any other glob considered is a literal name
fnmatch(nm, glob) == glob = nm \/ (glob = "*.tmp" /\ nm \in TmpNames)

\* the lines of _load_gitignore_spec with the nearest .gitignore first
RECURSIVE gitignore_patterns_nearest_first(_, _, _)
gitignore_patterns_nearest_first(gi, root, current) ==
    IF ~is_relative_to(current, root) THEN <<>>
    ELSE (IF current \in DOMAIN gi THEN gi[current] ELSE <<>>)
         \o (IF current = root THEN <<>>
             ELSE gitignore_patterns_nearest_first(gi, root, parent(current)))

\* gitwildmatch of one line against a path relative to the root: a name
\* without a slash matches at any depth, the file itself or a directory above
\* it; a line ending in a slash matches only what lies below such a directory
pattern_matches(pat, rel) ==
    \E i \in 1..Len(rel) :
        /\ fnmatch(rel[i], pat.name)
        /\ pat.dir_only => i < Len(rel)

\* PathSpec.match_file: the last line that matches decides
RECURSIVE match_file(_, _)
match_file(spec, rel) ==
    IF spec = <<>> THEN FALSE
    ELSE IF pattern_matches(spec[Len(spec)], rel)
    THEN ~spec[Len(spec)].negated
    ELSE match_file(SubSeq(spec, 1, Len(spec) - 1), rel)

\* GitignoreManager._find_gitignore_files followed by the concatenation of
\* the lines in _load_gitignore_spec: root first, then down to the directory
RECURSIVE gitignore_patterns(_, _, _)
gitignore_patterns(gi, root, current) ==
    IF ~is_relative_to(current, root) THEN <<>>
    ELSE (IF current = root THEN <<>>
          ELSE gitignore_patterns(gi, root, parent(current)))
         \o (IF current \in DOMAIN gi THEN gi[current] ELSE <<>>)

\* _load_gitignore_spec without the test of the cache: the rule set is read
\* again on every call
load_gitignore_spec_reloading(gi, root, cache, directory) ==
    put(cache, directory, gitignore_patterns(gi, root, directory))

\* GitignoreManager._load_gitignore_spec: the cache after the call; the empty
\* rule set stands for the cached None
load_gitignore_spec(gi, root, cache, directory) ==
    IF directory \in DOMAIN cache THEN cache
    ELSE put(cache, directory, gitignore_patterns(gi, root, directory))

\* directory = path.parent if path.is_file() else path
containing_directory(w, path) ==
    IF path \in DOMAIN w.fs THEN parent(path) ELSE path

\* spec.match_file(str(rel_path)) with the rule set loaded for directory
spec_verdict(loaded, directory, rel) ==
    [ignored |-> rel # <<>> /\ match_file(loaded[directory], rel),
     cache |-> loaded]

\* is_ignored without the check that the path lies under the root
is_ignored_unrooted(w, gi, root, cache, path) ==
    spec_verdict(
        load_gitignore_spec(gi, root, cache, containing_directory(w, path)),
        containing_directory(w, path),
        IF is_relative_to(path, root)
        THEN SubSeq(path, Len(root) + 1, Len(path)) ELSE <<>>)

\* the except clause of _load_gitignore_spec: the no-rules marker is cached
load_gitignore_failed(cache, directory) ==
    IF directory \in DOMAIN cache THEN cache ELSE put(cache, directory, <<>>)

\* is_ignored for a path under the root when _load_gitignore_spec fails to
\* read a .gitignore file
is_ignored_unreadable(w, root, cache, path) ==
    spec_verdict(load_gitignore_failed(cache, containing_directory(w, path)),
                 containing_directory(w, path),
                 SubSeq(path, Len(root) + 1, Len(path)))

\* GitignoreManager.is_ignored: [ignored, cache]
is_ignored(w, gi, root, cache, path) ==
    IF ~is_relative_to(path, root)
    THEN [ignored |-> FALSE, cache |-> cache]
    ELSE spec_verdict(
             load_gitignore_spec(gi, root, cache,
                                 containing_directory(w, path)),
             containing_directory(w, path),
             SubSeq(path, Len(root) + 1, Len(path)))

\* the handler's gitignore filter: is_ignored when a GitignoreManager is
\* configured (respect_gitignore), nothing ignored otherwise
filter_verdict(cfg, w, gi, cache, path) ==
    IF cfg.respect_gitignore
    THEN is_ignored(w, gi, cfg.directory, cache, path)
    ELSE [ignored |-> FALSE, cache |-> cache]

\* ------------------------------------------------------------- path matcher
\* match_mapping with the target of a recursive match forced to the
\* configuration root
match_mapping_at_root(cfg, modified_file, m) ==
    IF modified_file = join(cfg.directory, m.source)
       \/ (/\ cfg.recursive
           /\ name(modified_file) = name(join(cfg.directory, m.source))
           /\ is_relative_to(modified_file, cfg.directory))
    THEN <<[source |-> modified_file,
            target |-> join(cfg.directory, m.target)]>>
    ELSE <<>>

\* match_mapping with the comparison of the file names left out of the
\* recursive match
match_mapping_any_name(cfg, modified_file, m) ==
    IF modified_file = join(cfg.directory, m.source)
    THEN <<[source |-> modified_file,
            target |-> join(cfg.directory, m.target)]>>
    ELSE IF cfg.recursive /\ is_relative_to(modified_file, cfg.directory)
    THEN <<[source |-> modified_file,
            target |-> join(parent(modified_file), m.target)]>>
    ELSE <<>>

\* match_mapping with the recursive match made whatever the recursive flag
match_mapping_always_recursive(cfg, modified_file, m) ==
    IF modified_file = join(cfg.directory, m.source)
    THEN <<[source |-> modified_file,
            target |-> join(cfg.directory, m.target)]>>
    ELSE IF /\ name(modified_file) = name(join(cfg.directory, m.source))
            /\ is_relative_to(modified_file, cfg.directory)
    THEN <<[source |-> modified_file,
            target |-> join(parent(modified_file), m.target)]>>
    ELSE <<>>

\* one iteration of the loop of FileMatcher.find_sync_targets: the pairs the
\* mapping m contributes for modified_file
match_mapping(cfg, modified_file, m) ==
    IF modified_file = join(cfg.directory, m.source)
    THEN <<[source |-> modified_file,
            target |-> join(cfg.directory, m.target)]>>
    ELSE IF /\ cfg.recursive
            /\ name(modified_file) = name(join(cfg.directory, m.source))
            /\ is_relative_to(modified_file, cfg.directory)
    THEN <<[source |-> modified_file,
            target |-> join(parent(modified_file), m.target)]>>
    ELSE <<>>

\* the loop of find_sync_targets with the pairs collected in reverse order
RECURSIVE find_from_reversed(_, _, _)
find_from_reversed(cfg, modified_file, i) ==
    IF i > Len(cfg.mappings) THEN <<>>
    ELSE find_from_reversed(cfg, modified_file, i + 1)
         \o match_mapping(cfg, modified_file, cfg.mappings[i])

\* the loop of FileMatcher.find_sync_targets from the i-th mapping on
RECURSIVE find_from(_, _, _)
find_from(cfg, modified_file, i) ==
    IF i > Len(cfg.mappings) THEN <<>>
    ELSE match_mapping(cfg, modified_file, cfg.mappings[i])
         \o find_from(cfg, modified_file, i + 1)

\* FileMatcher.find_sync_targets
find_sync_targets(cfg, modified_file) == find_from(cfg, modified_file, 1)

\* ---------------------------------------------------------------- debouncer
\* should_debounce without the time window
should_debounce_no_window(d, current_time) == d.syncing

\* should_debounce with the comparison "<=": an event exactly the delay
\* after the last completion is still debounced
should_debounce_inclusive(d, current_time) ==
    IF d.syncing THEN TRUE
    ELSE current_time - d.last_sync_time <= d.delay

\* SyncDebouncer.should_debounce, with current_time the value of time.time()
should_debounce(d, current_time) ==
    IF d.syncing THEN TRUE
    ELSE current_time - d.last_sync_time < d.delay

start_sync(d) == [d EXCEPT !.syncing = TRUE]

finish_sync(d, current_time) ==
    [d EXCEPT !.syncing = FALSE, !.last_sync_time = current_time]

\* ------------------------------------------------------- content propagator
\* Results of MemorySyncHandler.sync_file are [w, outcome, raised, touched]:
\* outcome is "missing" (the early return), "error" (an exception of the read
\* or the write, caught and logged) or "synced"; raised says an exception
\* leaves the call; touched says the target file was opened for writing.

\* sync_written without the except clause: the exception of the write
\* leaves sync_file
sync_written_raising(wr) ==
    [w |-> wr.w, outcome |-> IF wr.ok THEN "synced" ELSE "error",
     raised |-> ~wr.ok, touched |-> wr.touched]

\* sync_file after FileOperations.write_file returned or raised wr
sync_written(wr) ==
    [w |-> wr.w, outcome |-> IF wr.ok THEN "synced" ELSE "error",
     raised |-> FALSE, touched |-> wr.touched]

\* sync_file after FileOperations.read_file returned or raised rd
sync_read(w, target, rd, fault) ==
    IF ~rd.ok
    THEN [w |-> w, outcome |-> "error", raised |-> FALSE, touched |-> FALSE]
    ELSE sync_written(write_file(w, target, rd.text, fault))

\* sync_file that writes an empty target when the source does not exist
sync_file_creating(w, source, target, fault) ==
    IF ~exists(w, source)
    THEN sync_written(write_file(w, target, <<>>, fault))
    ELSE sync_read(w, target, read_file(w, source, fault), fault)

\* MemorySyncHandler.sync_file
sync_file(w, source, target, fault) ==
    IF ~exists(w, source)
    THEN [w |-> w, outcome |-> "missing", raised |-> FALSE, touched |-> FALSE]
    ELSE sync_read(w, target, read_file(w, source, fault), fault)

\* the fault injected into the i-th call of a pass: flt is [at, kind]
fault_at(flt, i) == IF flt.at = i THEN flt.kind ELSE "none"

\* Results of a pass are [w, attempted, outcomes, touched, raised]: attempted
\* lists the pairs sync_file was called with, touched the targets opened for
\* writing.
no_pass(w) ==
    [w |-> w, attempted |-> <<>>, outcomes |-> <<>>, touched |-> <<>>,
     raised |-> FALSE]

\* the pass that called sync_file for pair with result r and went on as rest
pass_append(pair, r, rest) ==
    [w |-> rest.w,
     attempted |-> <<pair>> \o rest.attempted,
     outcomes |-> <<r.outcome>> \o rest.outcomes,
     touched |-> (IF r.touched THEN <<pair.target>> ELSE <<>>) \o rest.touched,
     raised |-> rest.raised]

\* the pass that ended in the call of sync_file for pair, which raised
pass_aborted(pair, r) ==
    [w |-> r.w, attempted |-> <<pair>>, outcomes |-> <<r.outcome>>,
     touched |-> IF r.touched THEN <<pair.target>> ELSE <<>>,
     raised |-> TRUE]

\* MemorySyncHandler._sync_all_targets from the i-th pair on
RECURSIVE sync_all_targets(_, _, _, _)
RECURSIVE sync_next_target(_, _, _, _)
sync_next_target(targets, i, flt, r) ==
    IF r.raised THEN pass_aborted(targets[i], r)
    ELSE pass_append(targets[i], r,
                     sync_all_targets(r.w, targets, i + 1, flt))

sync_all_targets(w, targets, i, flt) ==
    IF i > Len(targets) THEN no_pass(w)
    ELSE sync_next_target(targets, i, flt,
                          sync_file(w, targets[i].source, targets[i].target,
                                    fault_at(flt, i)))

\* Results of _process_file_modification are
\* [d, w, targets, attempted, outcomes, touched, raised].

\* the end of _process_file_modification after _sync_all_targets gave r:
\* finish_sync unless an exception passes, and the finally clause
process_synced(started, sync_targets, current_time, r) ==
    [d |-> IF r.raised THEN [started EXCEPT !.syncing = FALSE]
           ELSE finish_sync(started, current_time),
     w |-> r.w, targets |-> sync_targets, attempted |-> r.attempted,
     outcomes |-> r.outcomes, touched |-> r.touched, raised |-> r.raised]

\* _process_file_modification from "if sync_targets:" on, without the finally
\* clause: a pass that resolved no target leaves the flag set
process_targets_no_finally(started, w, sync_targets, current_time, flt) ==
    IF sync_targets = <<>>
    THEN [d |-> started, w |-> w,
          targets |-> <<>>, attempted |-> <<>>, outcomes |-> <<>>,
          touched |-> <<>>, raised |-> FALSE]
    ELSE process_synced(started, sync_targets, current_time,
                        sync_all_targets(w, sync_targets, 1, flt))

\* _process_file_modification from "if sync_targets:" on, with finish_sync
\* called also when no target was resolved
process_targets_finishing(started, w, sync_targets, current_time, flt) ==
    IF sync_targets = <<>>
    THEN [d |-> finish_sync(started, current_time), w |-> w,
          targets |-> <<>>, attempted |-> <<>>, outcomes |-> <<>>,
          touched |-> <<>>, raised |-> FALSE]
    ELSE process_synced(started, sync_targets, current_time,
                        sync_all_targets(w, sync_targets, 1, flt))

\* _process_file_modification from "if sync_targets:" on
process_targets(started, w, sync_targets, current_time, flt) ==
    IF sync_targets = <<>>
    THEN [d |-> [started EXCEPT !.syncing = FALSE], w |-> w,
          targets |-> <<>>, attempted |-> <<>>, outcomes |-> <<>>,
          touched |-> <<>>, raised |-> FALSE]
    ELSE process_synced(started, sync_targets, current_time,
                        sync_all_targets(w, sync_targets, 1, flt))

\* MemorySyncHandler._process_file_modification
process_file_modification(cfg, d, w, file_path, current_time, flt) ==
    process_targets(start_sync(d), w, find_sync_targets(cfg, file_path),
                    current_time, flt)

\* the gate with the debounce check made before the gitignore check
debounce_gate_debounce_first(d, current_time, ig) ==
    IF should_debounce(d, current_time)
    THEN [process |-> FALSE, why |-> "debounced", cache |-> ig.cache]
    ELSE IF ig.ignored
    THEN [process |-> FALSE, why |-> "ignored", cache |-> ig.cache]
    ELSE [process |-> TRUE, why |-> "processed", cache |-> ig.cache]

\* the debounce gate of _should_process_file after the gitignore filter gave
\* ig: [process, why, cache]
debounce_gate(d, current_time, ig) ==
    IF ig.ignored
    THEN [process |-> FALSE, why |-> "ignored", cache |-> ig.cache]
    ELSE IF should_debounce(d, current_time)
    THEN [process |-> FALSE, why |-> "debounced", cache |-> ig.cache]
    ELSE [process |-> TRUE, why |-> "processed", cache |-> ig.cache]

\* MemorySyncHandler._should_process_file
should_process_file(cfg, d, w, gi, cache, file_path, current_time) ==
    debounce_gate(d, current_time, filter_verdict(cfg, w, gi, cache, file_path))

\* Results of on_modified are
\* [kind, d, w, cache, targets, attempted, outcomes, touched, raised]; kind is
\* "directory", "ignored", "debounced" or "processed".
dropped(kind, d, w, cache) ==
    [kind |-> kind, d |-> d, w |-> w, cache |-> cache, targets |-> <<>>,
     attempted |-> <<>>, outcomes |-> <<>>, touched |-> <<>>, raised |-> FALSE]

processed(cache, r) ==
    [kind |-> "processed", d |-> r.d, w |-> r.w, cache |-> cache,
     targets |-> r.targets, attempted |-> r.attempted,
     outcomes |-> r.outcomes, touched |-> r.touched, raised |-> r.raised]

\* on_modified after _should_process_file gave sp
on_modified_gated(cfg, d, w, file_path, current_time, flt, sp) ==
    IF ~sp.process THEN dropped(sp.why, d, w, sp.cache)
    ELSE processed(sp.cache,
                   process_file_modification(cfg, d, w, file_path,
                                             current_time, flt))

\* MemorySyncHandler.on_modified
on_modified(cfg, d, w, gi, cache, event, current_time, flt) ==
    IF event.is_directory THEN dropped("directory", d, w, cache)
    ELSE on_modified_gated(
             cfg, d, w, event.src_path, current_time, flt,
             should_process_file(cfg, d, w, gi, cache, event.src_path,
                                 current_time))

\* ------------------------------------------------------------- initial sync
\* the entries of a directory listing, in the fixed order the platform
\* returns them
RECURSIVE SetToSeq(_)
pick(S) == CHOOSE y \in S : TRUE

SetToSeq(S) ==
    IF S = {} THEN <<>> ELSE <<pick(S)>> \o SetToSeq(S \ {pick(S)})

children(w, root) == {d \in w.dirs : d # <<>> /\ parent(d) = root}

\* dirs[:] = [d for d in dirs if not is_ignored(root / d)]: [kept, cache]
RECURSIVE filter_dirs(_, _, _, _, _)
keep_dir(d, ig, rest) ==
    [kept |-> (IF ig.ignored THEN <<>> ELSE <<d>>) \o rest.kept,
     cache |-> rest.cache]

RECURSIVE filter_dirs_after(_, _, _, _, _)
filter_dirs_after(cfg, w, gi, ds, ig) ==
    keep_dir(Head(ds), ig, filter_dirs(cfg, w, gi, ig.cache, Tail(ds)))

filter_dirs(cfg, w, gi, cache, ds) ==
    IF ds = <<>> THEN [kept |-> <<>>, cache |-> cache]
    ELSE filter_dirs_after(cfg, w, gi, ds,
                           is_ignored(w, gi, cfg.directory, cache, Head(ds)))

\* the directories of root that os.walk descends into: [kept, cache]
walk_dirs(cfg, w, gi, cache, root) ==
    IF cfg.respect_gitignore
    THEN filter_dirs(cfg, w, gi, cache, SetToSeq(children(w, root)))
    ELSE [kept |-> SetToSeq(children(w, root)), cache |-> cache]

\* the os.walk loop of _find_source_file_recursive, top-down, with the
\* directories still to visit in stack: [found, cache]; found = <<>> is None
RECURSIVE walk(_, _, _, _, _, _)
RECURSIVE walk_candidate(_, _, _, _, _, _, _)
RECURSIVE walk_directory(_, _, _, _, _, _)
\* "if source_filename in files" found candidate_path; ig is the filter's
\* verdict on it, next the directories still to visit
walk_candidate(cfg, w, gi, next, source, candidate_path, ig) ==
    IF ig.ignored THEN walk(cfg, w, gi, ig.cache, next, source)
    ELSE [found |-> candidate_path, cache |-> ig.cache]

\* one iteration for the directory Head(stack) whose dirs were filtered to f
walk_directory(cfg, w, gi, stack, source, f) ==
    IF join(Head(stack), source) \in DOMAIN w.fs
    THEN walk_candidate(cfg, w, gi, f.kept \o Tail(stack), source,
                        join(Head(stack), source),
                        filter_verdict(cfg, w, gi, f.cache,
                                       join(Head(stack), source)))
    ELSE walk(cfg, w, gi, f.cache, f.kept \o Tail(stack), source)

walk(cfg, w, gi, cache, stack, source) ==
    IF stack = <<>> THEN [found |-> <<>>, cache |-> cache]
    ELSE walk_directory(cfg, w, gi, stack, source,
                        walk_dirs(cfg, w, gi, cache, Head(stack)))

\* MemorySyncHandler._find_source_file_recursive
find_source_file_recursive(cfg, w, gi, cache, source) ==
    walk(cfg, w, gi, cache, <<cfg.directory>>, source)

\* Results of _sync_initial_mapping are [w, cache, attempted, outcomes].
initial_synced(cache, source, target, r) ==
    [w |-> r.w, cache |-> cache,
     attempted |-> <<[source |-> source, target |-> target]>>,
     outcomes |-> <<r.outcome>>]

initial_sync_pair(w, cache, source, target, fault) ==
    initial_synced(cache, source, target, sync_file(w, source, target, fault))

\* the recursive branch of _sync_initial_mapping after the search gave fnd
initial_sync_found(w, m, fault, fnd) ==
    IF fnd.found # <<>>
    THEN initial_sync_pair(w, fnd.cache, fnd.found,
                           join(parent(fnd.found), m.target), fault)
    ELSE [w |-> w, cache |-> fnd.cache, attempted |-> <<>>, outcomes |-> <<>>]

\* MemorySyncHandler._sync_initial_mapping for the mapping m
sync_initial_mapping(cfg, w, gi, cache, m, fault) ==
    IF exists(w, join(cfg.directory, m.source))
    THEN initial_sync_pair(w, cache, join(cfg.directory, m.source),
                           join(cfg.directory, m.target), fault)
    ELSE IF cfg.recursive
    THEN initial_sync_found(w, m, fault,
             find_source_file_recursive(cfg, w, gi, cache, m.source))
    ELSE [w |-> w, cache |-> cache, attempted |-> <<>>, outcomes |-> <<>>]

\* MemorySyncHandler.initial_sync from the i-th mapping on
RECURSIVE initial_sync_from(_, _, _, _, _, _)
RECURSIVE initial_sync_next(_, _, _, _, _)
initial_sync_then(r, rest) ==
    [w |-> rest.w, cache |-> rest.cache,
     attempted |-> r.attempted \o rest.attempted,
     outcomes |-> r.outcomes \o rest.outcomes]

initial_sync_next(cfg, gi, i, flt, r) ==
    initial_sync_then(r, initial_sync_from(cfg, r.w, gi, r.cache, i + 1, flt))

initial_sync_from(cfg, w, gi, cache, i, flt) ==
    IF i > Len(cfg.mappings)
    THEN [w |-> w, cache |-> cache, attempted |-> <<>>, outcomes |-> <<>>]
    ELSE initial_sync_next(cfg, gi, i, flt,
             sync_initial_mapping(cfg, w, gi, cache, cfg.mappings[i],
                                  fault_at(flt, i)))

initial_sync(cfg, w, gi, cache, flt) ==
    initial_sync_from(cfg, w, gi, cache, 1, flt)

\* -------------------------------------------------------------------- state
VARIABLES
    config,      \* the MemoryProxyConfig of the handler
    fs,          \* path of every regular file |-> its bytes
    dirs,        \* the existing directories
    gitignores,  \* directory holding a .gitignore |-> its pattern lines
    spec_cache,  \* GitignoreManager.spec_cache
    debouncer,   \* SyncDebouncer: [delay, last_sync_time, syncing]
    now,         \* time.time(), in milliseconds
    queue,       \* change events the observer has still to dispatch
    pc,          \* "start" before initial_sync, "watching" once scheduled
    last,        \* what the handler call of the latest step did
    nwrites,     \* number of modifications the user has made
    io_faulted,  \* an injected I/O failure has hit a write
    query,       \* the latest call of GitignoreManager.is_ignored
    amp_files,   \* directory holding a .amp.yaml |-> its document
    environ,     \* the value of AGENT_MEMORY_PATHS
    watcher,     \* the MemoryProxyWatcher and the position of start()
    call,        \* the latest method call on the SyncDebouncer under test
    loader,      \* the latest call of MemoryProxyConfig(config_path)
    threads,     \* thread delivering events |-> its position in on_modified
    observer     \* the Observer: its state and what its threads have done

\* the variables of the handler and its file system
handler_vars == <<config, fs, dirs, gitignores, spec_cache, debouncer, now,
                  queue, pc, last, nwrites, io_faulted>>

\* the variables of the gitignore filter under query and of the watcher
\* the variables of the debouncer and the loader under test and of the
\* observer's threads
more_vars == <<call, loader, threads, observer>>

other_vars == <<query, amp_files, environ, watcher, more_vars>>

vars == <<handler_vars, other_vars>>

Root == <<"R">>

Docs == <<"R", "docs">>

\* the configuration documents considered: validated agents list and
\* truth_memory_file
Documents ==
    {[agents |-> <<"gemini", "claude", "gemini">>, truth |-> <<"AGENT.md">>],
     [agents |-> <<"cursor">>, truth |-> <<"AGENT.md">>],
     [agents |-> <<"cursor">>, truth |-> <<"project.mdc">>]}

Contents ==
    {<<"x">>, <<"x", "LF">>, <<"x", "CR", "LF">>}

DocsIgnored == [name |-> "docs", dir_only |-> TRUE, negated |-> FALSE]

GitignoreChoices ==
    {[d \in {} |-> <<>>], [d \in {Root} |-> <<DocsIgnored>>]}

FaultKinds == {"read", "open", "write"}

NoFault == [at |-> 0, kind |-> "none"]

Faults == {NoFault} \cup [at : {1, 2}, kind : FaultKinds]

\* no call of is_ignored recorded; answers maps each path asked so far to
\* the first answer it got
NoQuery ==
    [kind |-> "none", path |-> <<>>, ignored |-> FALSE, fresh |-> FALSE,
     answers |-> <<>>]

\* MemoryProxyWatcher.__init__: nothing registered, start() not yet called
NoWatcher ==
    [pc |-> "init", all_configs |-> <<>>, pending |-> <<>>,
     handlers |-> [q \in {} |-> <<>>], watched_directories |-> {},
     scheduled |-> <<>>, started |-> FALSE, exit_code |-> 0,
     scanned |-> <<>>, last |-> [kind |-> "none", config_path |-> <<>>]]

\* no method of the debouncer called yet: no sync in progress, none finished
NoMethodCall ==
    [op |-> "none", result |-> FALSE, in_progress |-> FALSE, finished_at |-> -1]

\* MemoryProxyConfig(config_path) not called yet
NotLoaded == [called |-> FALSE, ok |-> FALSE, mappings |-> <<>>]

\* an Observer that was not started
NoObserver ==
    [state |-> "none", delivered |-> 0, written |-> 0, stop_in_flight |-> FALSE]

\* nothing is called on a debouncer or a loader and no thread delivers events
MoreInit ==
    /\ call = NoMethodCall
    /\ loader = NotLoaded
    /\ threads = [t \in {} |-> <<>>]
    /\ observer = NoObserver

NoCall ==
    [kind |-> "none", path |-> <<>>, targets |-> <<>>, attempted |-> <<>>,
     outcomes |-> <<>>, raised |-> FALSE, cause |-> "none"]

world == [fs |-> fs, dirs |-> dirs]

\* the files the user edits: the truth file at the root and in docs/, and an
\* unrelated file
TruthPaths ==
    {join(Root, config.truth_memory_file),
     join(Docs, config.truth_memory_file)}

Unrelated == join(Root, <<"README.md">>)

\* observer.schedule(handler, directory, recursive=config.recursive): the
\* paths whose changes are reported to the handler
watched(cfg, p) ==
    /\ p # cfg.directory
    /\ is_relative_to(p, cfg.directory)
    /\ cfg.recursive \/ parent(p) = cfg.directory

RECURSIVE file_events(_, _, _)
file_events(cfg, paths, cause) ==
    IF paths = <<>> THEN <<>>
    ELSE (IF watched(cfg, Head(paths))
          THEN <<[src_path |-> Head(paths), is_directory |-> FALSE,
                  cause |-> cause]>>
          ELSE <<>>)
         \o file_events(cfg, Tail(paths), cause)

Init ==
    /\ config \in {MemoryProxyConfig(Root, doc.agents, doc.truth, g, r) :
                      doc \in Documents, g \in BOOLEAN, r \in BOOLEAN}
    /\ fs = [q \in {} |-> <<>>]
    /\ dirs = {Root, Docs}
    /\ gitignores \in GitignoreChoices
    /\ config.respect_gitignore \/ gitignores = [q \in {} |-> <<>>]
    /\ spec_cache = [q \in {} |-> <<>>]
    /\ debouncer = [delay |-> DEBOUNCE_DELAY, last_sync_time |-> 0,
                    syncing |-> FALSE]
    /\ now = DEBOUNCE_DELAY
    /\ queue = <<>>
    /\ pc = "start"
    /\ last = NoCall
    /\ nwrites = 0
    /\ io_faulted = FALSE
    /\ query = NoQuery
    /\ amp_files = [q \in {} |-> <<>>]
    /\ environ = [set |-> FALSE, value |-> <<>>]
    /\ watcher = NoWatcher
    /\ MoreInit

\* the events the observer reports for a change of p by the user
user_events(p) ==
    IF pc = "watching" THEN file_events(config, <<p>>, "user") ELSE <<>>

\* the user writes content c to the file p
UserWrite(p, c) ==
    /\ nwrites < MaxWrites
    /\ p \notin dirs
    /\ Len(queue) + Len(user_events(p)) <= MaxQueue
    /\ queue' = queue \o user_events(p)
    /\ fs' = put(fs, p, c)
    /\ dirs' = dirs \cup ancestors(p)
    /\ nwrites' = nwrites + 1
    /\ last' = NoCall
    /\ UNCHANGED <<config, gitignores, spec_cache, debouncer, now, pc,
                   io_faulted>>
    /\ UNCHANGED other_vars

\* the user deletes the file p (no modification event)
UserDelete(p) ==
    /\ nwrites < MaxWrites
    /\ p \in DOMAIN fs
    /\ fs' = remove(fs, p)
    /\ nwrites' = nwrites + 1
    /\ last' = NoCall
    /\ UNCHANGED <<config, dirs, gitignores, spec_cache, debouncer, now, queue,
                   pc, io_faulted>>
    /\ UNCHANGED other_vars

\* a change of a directory entry is reported for the directory itself
DirectoryEvent ==
    /\ pc = "watching"
    /\ nwrites < MaxWrites
    /\ Len(queue) < MaxQueue
    /\ queue' = Append(queue, [src_path |-> Docs, is_directory |-> TRUE,
                               cause |-> "user"])
    /\ nwrites' = nwrites + 1
    /\ last' = NoCall
    /\ UNCHANGED <<config, fs, dirs, gitignores, spec_cache, debouncer, now,
                   pc, io_faulted>>
    /\ UNCHANGED other_vars

\* time passes
Tick ==
    /\ now + TickMs <= DEBOUNCE_DELAY + MaxTicks * TickMs
    /\ now' = now + TickMs
    /\ last' = NoCall
    /\ UNCHANGED <<config, fs, dirs, gitignores, spec_cache, debouncer, queue,
                   pc, nwrites, io_faulted>>
    /\ UNCHANGED other_vars

\* the fault of flts that can hit a pass of n calls of sync_file
faults_for(flts, n) == {flt \in flts : flt.at <= n}

\* an injected failure made a call of the pass fail
fault_hit(flt, outcomes) ==
    /\ flt.at \in 1..Len(outcomes)
    /\ outcomes[flt.at] = "error"

\* the step of InitialSync once initial_sync gave r
InitialSynced(flt, r) ==
    /\ \A i \in 1..Len(r.attempted) : Len(r.attempted[i].target) <= MaxDepth
    /\ fs' = r.w.fs
    /\ dirs' = r.w.dirs
    /\ spec_cache' = r.cache
    /\ io_faulted' = (io_faulted \/ fault_hit(flt, r.outcomes))
    /\ last' = [kind |-> "initial", path |-> <<>>, targets |-> r.attempted,
                attempted |-> r.attempted, outcomes |-> r.outcomes,
                raised |-> FALSE, cause |-> "none"]

\* handler.initial_sync() followed by observer.schedule(...), with the I/O
\* failures of flts possible
InitialSync(flts) ==
    /\ pc = "start"
    /\ \E flt \in faults_for(flts, Len(config.mappings)) :
          InitialSynced(flt, initial_sync(config, world, gitignores,
                                          spec_cache, flt))
    /\ pc' = "watching"
    /\ UNCHANGED <<config, gitignores, debouncer, now, queue, nwrites>>
    /\ UNCHANGED other_vars

\* the step of OnModified once on_modified(e) gave r, its writes being
\* reported as the events evs
Dispatched(e, flt, r, evs) ==
    /\ \A i \in 1..Len(r.targets) : Len(r.targets[i].target) <= MaxDepth
    /\ Len(Tail(queue)) + Len(evs) <= MaxQueue
    /\ queue' = Tail(queue) \o evs
    /\ fs' = r.w.fs
    /\ dirs' = r.w.dirs
    /\ spec_cache' = r.cache
    /\ debouncer' = r.d
    /\ io_faulted' = (io_faulted \/ fault_hit(flt, r.outcomes))
    /\ last' = [kind |-> r.kind, path |-> e.src_path, targets |-> r.targets,
                attempted |-> r.attempted, outcomes |-> r.outcomes,
                raised |-> r.raised, cause |-> e.cause]

Dispatch(e, flt, r) ==
    Dispatched(e, flt, r, file_events(config, r.touched, "handler"))

\* the observer dispatches the oldest pending event to handler.on_modified,
\* with the I/O failures of flts possible
OnModified(flts) ==
    /\ pc = "watching"
    /\ queue # <<>>
    /\ \E flt \in faults_for(flts,
                             Len(find_sync_targets(config,
                                                   Head(queue).src_path))) :
          Dispatch(Head(queue), flt,
                   on_modified(config, debouncer, world, gitignores,
                               spec_cache, Head(queue), now, flt))
    /\ UNCHANGED <<config, gitignores, now, pc, nwrites>>
    /\ UNCHANGED other_vars

\* the user's and the clock's steps
Environment ==
    \/ \E p \in TruthPaths, c \in Contents : UserWrite(p, c)
    \/ UserWrite(Unrelated, <<"x">>)
    \/ \E p \in TruthPaths : UserDelete(p)
    \/ DirectoryEvent
    \/ Tick

\* the program where no I/O operation fails
Next ==
    \/ Environment
    \/ InitialSync({NoFault})
    \/ OnModified({NoFault})

Spec == Init /\ [][Next]_vars

\* the program where reads and writes may fail, for one recursive
\* configuration without gitignore filtering per document
FaultInit ==
    /\ Init
    /\ config.recursive
    /\ ~config.respect_gitignore

FaultNext ==
    \/ Environment
    \/ InitialSync(Faults)
    \/ OnModified(Faults)

FaultSpec == FaultInit /\ [][FaultNext]_vars

\* --------------------------------------------------- the gitignore filter
\* The GitignoreManager of a handler for Root, queried for paths of a tree
\* with .tmp files at the root and in docs/ while the user edits the
\* .gitignore files.
TmpLine == [name |-> "*.tmp", dir_only |-> FALSE, negated |-> FALSE]

KeepLine == [name |-> "keep.tmp", dir_only |-> FALSE, negated |-> TRUE]

\* "*.tmp" in the root .gitignore and "!keep.tmp" in the one of docs/
NestedGitignores == (Root :> <<TmpLine>>) @@ (Docs :> <<KeepLine>>)

GitignoreFiles ==
    {[d \in {} |-> <<>>],
     (Root :> <<TmpLine>>),
     NestedGitignores,
     (Docs :> <<TmpLine>>),
     (Root :> <<DocsIgnored>>)}

TmpFiles ==
    {join(Root, <<"keep.tmp">>), join(Root, <<"other.tmp">>),
     join(Docs, <<"keep.tmp">>), join(Docs, <<"other.tmp">>)}

Outside == <<"X", "keep.tmp">>

\* the paths is_ignored is called with: existing files, a file that does not
\* exist, directories, and a path outside the root
QueryPaths == TmpFiles \cup {join(Docs, <<"new.tmp">>), Docs, Root, Outside}

GitignoreInit ==
    /\ config = MemoryProxyConfig(Root, <<"claude">>, <<"AGENT.md">>, TRUE, TRUE)
    /\ fs = [q \in TmpFiles |-> <<"x">>]
    /\ dirs = {Root, Docs}
    /\ gitignores \in GitignoreFiles
    /\ spec_cache = [q \in {} |-> <<>>]
    /\ debouncer = [delay |-> DEBOUNCE_DELAY, last_sync_time |-> 0,
                    syncing |-> FALSE]
    /\ now = DEBOUNCE_DELAY
    /\ queue = <<>>
    /\ pc = "start"
    /\ last = NoCall
    /\ nwrites = 0
    /\ io_faulted = FALSE
    /\ query = NoQuery
    /\ amp_files = [q \in {} |-> <<>>]
    /\ environ = [set |-> FALSE, value |-> <<>>]
    /\ watcher = NoWatcher
    /\ MoreInit

\* the first answers with the answer of this call for path
first_answers(answers, path, ignored) ==
    IF path \in DOMAIN answers THEN answers ELSE put(answers, path, ignored)

\* the record of a call of is_ignored(path) that gave r
asked(kind, path, r) ==
    [kind |-> kind, path |-> path, ignored |-> r.ignored,
     fresh |-> /\ is_relative_to(path, config.directory)
               /\ containing_directory(world, path) \notin DOMAIN spec_cache,
     answers |-> first_answers(query.answers, path, r.ignored)]

\* the step of IsIgnored once is_ignored(path) gave r
IsIgnoredCalled(path, r) ==
    /\ spec_cache' = r.cache
    /\ query' = asked("is_ignored", path, r)

\* a .gitignore file lies between the root and directory
gitignore_found(gi, root, directory) ==
    \E a \in DOMAIN gi : is_relative_to(a, root) /\ is_relative_to(directory, a)

\* a call of gitignore_manager.is_ignored(path) that has to load the rule
\* set of the path's directory while a .gitignore file on the way cannot be
\* read: the except clause of _load_gitignore_spec
IsIgnoredUnreadable(path) ==
    /\ is_relative_to(path, config.directory)
    /\ containing_directory(world, path) \notin DOMAIN spec_cache
    /\ gitignore_found(gitignores, config.directory,
                       containing_directory(world, path))
    /\ spec_cache' = is_ignored_unreadable(world, config.directory, spec_cache,
                                           path).cache
    /\ query' = asked("load_error", path,
                      is_ignored_unreadable(world, config.directory,
                                            spec_cache, path))
    /\ UNCHANGED <<config, fs, dirs, gitignores, debouncer, now, queue, pc,
                   last, nwrites, io_faulted, amp_files, environ, watcher>>
    /\ UNCHANGED more_vars

\* a call of gitignore_manager.is_ignored(path)
IsIgnored(path) ==
    /\ IsIgnoredCalled(path, is_ignored(world, gitignores, config.directory,
                                        spec_cache, path))
    /\ UNCHANGED <<config, fs, dirs, gitignores, debouncer, now, queue, pc,
                   last, nwrites, io_faulted, amp_files, environ, watcher>>
    /\ UNCHANGED more_vars

\* the user replaces the .gitignore files of the tree
EditGitignore(g) ==
    /\ g # gitignores
    /\ gitignores' = g
    /\ query' = [NoQuery EXCEPT !.answers = query.answers]
    /\ UNCHANGED <<config, fs, dirs, spec_cache, debouncer, now, queue, pc,
                   last, nwrites, io_faulted, amp_files, environ, watcher>>
    /\ UNCHANGED more_vars

GitignoreNext ==
    \/ \E path \in QueryPaths : IsIgnored(path)
    \/ \E path \in QueryPaths : IsIgnoredUnreadable(path)
    \/ \E g \in GitignoreFiles : EditGitignore(g)

GitignoreSpec == GitignoreInit /\ [][GitignoreNext]_vars

\* ------------------------------------------------- loading a configuration
\* A configuration file is [yaml, agents, truth_memory_file,
\* respect_gitignore, recursive]: yaml is "mapping", "empty" or "malformed",
\* and each key of the mapping is [present, ...] with its value.

\* the identifier compared as it is written, without str.lower()
lower_case_sensitive(s) == s

\* str.lower() of the agent identifiers considered
lower(s) ==
    IF s = "Claude" THEN "claude"
    ELSE IF s = "GEMINI" THEN "gemini"
    ELSE s

\* ConfigValidator.validate_agents_list from the i-th entry on: [ok, agents]
RECURSIVE validate_agents_from(_, _)
validated_agent(item, rest) ==
    [ok |-> /\ item.is_str
            /\ lower(item.value) \in DOMAIN AGENT_DEFAULTS
            /\ rest.ok,
     agents |-> IF item.is_str /\ lower(item.value) \in DOMAIN AGENT_DEFAULTS
                THEN <<lower(item.value)>> \o rest.agents
                ELSE <<>>]

validate_agents_from(items, i) ==
    IF i > Len(items) THEN [ok |-> TRUE, agents |-> <<>>]
    ELSE validated_agent(items[i], validate_agents_from(items, i + 1))

\* ConfigValidator.validate_agents_list: [ok, agents]
validate_agents_list(agents) ==
    IF ~agents.is_list THEN [ok |-> FALSE, agents |-> <<>>]
    ELSE validate_agents_from(agents.items, 1)

\* config_data.get(key, default)
get(entry, default) == IF entry.present THEN entry.value ELSE default

\* the end of _load_and_validate_config once the agents list validated to v:
\* [ok, config, truth_is_str]; self.recursive keeps the value of __init__
loaded_config(directory, doc, v) ==
    [ok |-> v.ok,
     config |-> MemoryProxyConfig(directory, v.agents,
                                  get(doc.truth_memory_file, <<"AGENT.md">>),
                                  get(doc.respect_gitignore, TRUE), TRUE),
     truth_is_str |-> ~doc.truth_memory_file.present
                      \/ doc.truth_memory_file.is_str]

\* no configuration: the loader raised
load_failed(directory) ==
    [ok |-> FALSE,
     config |-> MemoryProxyConfig(directory, <<>>, <<"AGENT.md">>, TRUE, TRUE),
     truth_is_str |-> TRUE]

\* MemoryProxyConfig(config_path) for the file directory/.amp.yaml holding
\* doc: FileOperations.load_yaml_config and _load_and_validate_config
load_and_validate_config(directory, doc) ==
    IF doc.yaml # "mapping" THEN load_failed(directory)
    ELSE IF ~doc.agents.present THEN load_failed(directory)
    ELSE loaded_config(directory, doc, validate_agents_list(doc.agents))

\* ------------------------------------------------------------- the watcher
\* the working directory of the process
Cwd == <<"W">>

CONFIG_FILENAME == <<".amp.yaml">>

\* os.environ.get(config.ENV_VAR, "")
os_environ_get(env) == IF env.set THEN env.value ELSE <<>>

\* paths_str.split(os.pathsep): the empty string splits into one empty entry
split(paths_str) == IF paths_str = <<>> THEN << <<>> >> ELSE paths_str

\* Path(path_str).resolve(): the empty path is the working directory
resolve(path) == IF path = <<>> THEN Cwd ELSE path

\* the loop of resolve_paths ended by the first entry that is not a directory
RECURSIVE resolve_entries_until_invalid(_, _)
resolve_entries_until_invalid(w, entries) ==
    IF entries = <<>> THEN <<>>
    ELSE IF resolve(Head(entries)) \in w.dirs
    THEN <<resolve(Head(entries))>>
         \o resolve_entries_until_invalid(w, Tail(entries))
    ELSE <<>>

\* the loop of PathUtils.resolve_paths over the entries
RECURSIVE resolve_entries(_, _)
resolve_entries(w, entries) ==
    IF entries = <<>> THEN <<>>
    ELSE (IF resolve(Head(entries)) \in w.dirs
          THEN <<resolve(Head(entries))>> ELSE <<>>)
         \o resolve_entries(w, Tail(entries))

\* PathUtils.resolve_paths
resolve_paths(w, paths_str) == resolve_entries(w, split(paths_str))

\* the os.walk loop of _scan_for_configs with the directories still to visit
\* in stack: a directory holding a configuration file is recorded and its
\* subdirectories are not visited
RECURSIVE scan_walk(_, _, _)
scan_walk(w, amp, stack) ==
    IF stack = <<>> THEN <<>>
    ELSE IF Head(stack) \in DOMAIN amp
    THEN <<join(Head(stack), CONFIG_FILENAME)>> \o scan_walk(w, amp, Tail(stack))
    ELSE scan_walk(w, amp, SetToSeq(children(w, Head(stack))) \o Tail(stack))

\* MemoryProxyWatcher._scan_for_configs
scan_for_configs(w, amp, directory) == scan_walk(w, amp, <<directory>>)

\* the loop of start() over watch_dirs: all_configs
RECURSIVE scan_all(_, _, _)
scan_all(w, amp, watch_dirs) ==
    IF watch_dirs = <<>> THEN <<>>
    ELSE scan_for_configs(w, amp, Head(watch_dirs))
         \o scan_all(w, amp, Tail(watch_dirs))

\* sys.exit(1)
sys_exit(wt, watch_dirs) ==
    [wt EXCEPT !.pc = "exited", !.exit_code = 1, !.scanned = watch_dirs]

\* start() with self._observer.start() called before the loop over
\* all_configs
start_scanned_observer_first(wt, watch_dirs, all_configs) ==
    IF all_configs = <<>> THEN sys_exit(wt, watch_dirs)
    ELSE [wt EXCEPT !.pc = "adding", !.scanned = watch_dirs,
                    !.all_configs = all_configs, !.pending = all_configs,
                    !.started = TRUE]

\* start() after the scan of watch_dirs gave all_configs
start_scanned(wt, watch_dirs, all_configs) ==
    IF all_configs = <<>> THEN sys_exit(wt, watch_dirs)
    ELSE [wt EXCEPT !.pc = "adding", !.scanned = watch_dirs,
                    !.all_configs = all_configs, !.pending = all_configs]

\* start() after resolve_paths gave watch_dirs
start_resolved(wt, w, amp, watch_dirs) ==
    IF watch_dirs = <<>> THEN sys_exit(wt, <<>>)
    ELSE start_scanned(wt, watch_dirs, scan_all(w, amp, watch_dirs))

\* the watch observer.schedule(handler, path, recursive) made reports p
covers(watch, p) ==
    /\ p # watch.path
    /\ is_relative_to(p, watch.path)
    /\ watch.recursive \/ parent(p) = watch.path

\* the events the emitters of the scheduled watches queue for a change of p:
\* one per watch that covers p
RECURSIVE watch_events(_, _, _)
watch_events(scheduled, p, cause) ==
    IF scheduled = <<>> THEN <<>>
    ELSE (IF covers(Head(scheduled), p)
          THEN <<[src_path |-> p, is_directory |-> FALSE, cause |-> cause,
                  watch |-> Head(scheduled).path]>>
          ELSE <<>>)
         \o watch_events(Tail(scheduled), p, cause)

\* the events queued for changes of paths: the emitters run from
\* self._observer.start() on, none before
RECURSIVE emitted(_, _, _)
emitted(wt, paths, cause) ==
    IF ~wt.started \/ paths = <<>> THEN <<>>
    ELSE watch_events(wt.scheduled, Head(paths), cause)
         \o emitted(wt, Tail(paths), cause)

\* the targets an initial sync with result r has written, from the i-th
\* attempted pair on
RECURSIVE synced_from(_, _)
synced_from(r, i) ==
    IF i > Len(r.attempted) THEN <<>>
    ELSE (IF r.outcomes[i] = "synced" THEN <<r.attempted[i].target>>
          ELSE <<>>)
         \o synced_from(r, i + 1)

\* Results of _add_watcher are [watcher, w, touched]; touched lists the
\* files the initial sync has written.
\* _add_watcher left by return or by the except clause
add_nothing(wt, w, kind, config_path) ==
    [watcher |-> [wt EXCEPT !.last = [kind |-> kind,
                                      config_path |-> config_path]],
     w |-> w, touched |-> <<>>]

\* _add_watcher after initial_sync gave r when observer.schedule raises: the
\* except clause, with the files of the initial sync written
add_unscheduled(wt, config_path, r) ==
    [watcher |-> [wt EXCEPT !.last = [kind |-> "unscheduled",
                                      config_path |-> config_path]],
     w |-> r.w, touched |-> synced_from(r, 1)]

\* add_registered without self.watched_directories.add(watch_path)
add_registered_handler_only(wt, config_path, cfg, r) ==
    [watcher |->
        [wt EXCEPT
            !.scheduled = Append(@, [path |-> cfg.directory,
                                     recursive |-> cfg.recursive]),
            !.handlers = put(@, config_path,
                             [config |-> cfg, spec_cache |-> r.cache,
                              debouncer |-> [delay |-> DEBOUNCE_DELAY,
                                             last_sync_time |-> 0,
                                             syncing |-> FALSE]]),
            !.last = [kind |-> "registered", config_path |-> config_path]],
     w |-> r.w, touched |-> synced_from(r, 1)]

\* _add_watcher after initial_sync gave r: schedule and register
add_registered(wt, config_path, cfg, r) ==
    [watcher |->
        [wt EXCEPT
            !.scheduled = Append(@, [path |-> cfg.directory,
                                     recursive |-> cfg.recursive]),
            !.handlers = put(@, config_path,
                             [config |-> cfg, spec_cache |-> r.cache,
                              debouncer |-> [delay |-> DEBOUNCE_DELAY,
                                             last_sync_time |-> 0,
                                             syncing |-> FALSE]]),
            !.watched_directories = @ \cup {cfg.directory},
            !.last = [kind |-> "registered", config_path |-> config_path]],
     w |-> r.w, touched |-> synced_from(r, 1)]

\* _add_watcher from MemorySyncHandler(config) on; initial_sync raises
\* TypeError at "directory / source" when truth_memory_file is not a string
add_handler(wt, w, gi, config_path, loaded) ==
    IF ~loaded.truth_is_str THEN add_nothing(wt, w, "failed", config_path)
    ELSE add_registered(wt, config_path, loaded.config,
                        initial_sync(loaded.config, w, gi,
                                     [q \in {} |-> <<>>],
                                     [at |-> 0, kind |-> "none"]))

\* _add_watcher without the test of watched_directories
add_loaded_unchecked(wt, w, gi, config_path, loaded) ==
    IF ~loaded.ok THEN add_nothing(wt, w, "failed", config_path)
    ELSE add_handler(wt, w, gi, config_path, loaded)

\* _add_watcher where a configuration that fails to load ends start()
add_loaded_fatal(wt, w, gi, config_path, loaded) ==
    IF ~loaded.ok
    THEN add_nothing([wt EXCEPT !.pc = "exited", !.exit_code = 1,
                                !.pending = <<>>],
                     w, "failed", config_path)
    ELSE IF loaded.config.directory \in wt.watched_directories
    THEN add_nothing(wt, w, "duplicate", config_path)
    ELSE add_handler(wt, w, gi, config_path, loaded)

\* _add_watcher after MemoryProxyConfig(config_path) returned or raised
add_loaded(wt, w, gi, config_path, loaded) ==
    IF ~loaded.ok THEN add_nothing(wt, w, "failed", config_path)
    ELSE IF loaded.config.directory \in wt.watched_directories
    THEN add_nothing(wt, w, "duplicate", config_path)
    ELSE add_handler(wt, w, gi, config_path, loaded)

\* MemoryProxyWatcher._add_watcher
add_watcher(wt, w, gi, amp, config_path) ==
    add_loaded(wt, w, gi, config_path,
               load_and_validate_config(parent(config_path),
                                        amp[parent(config_path)]))

\* _add_watcher from MemoryProxyConfig(config_path) on for a configuration
\* that reaches observer.schedule, which raises
add_loaded_unscheduled(wt, w, gi, config_path, loaded) ==
    add_unscheduled(wt, config_path,
                    initial_sync(loaded.config, w, gi, [q \in {} |-> <<>>],
                                 [at |-> 0, kind |-> "none"]))

\* _add_watcher reaches observer.schedule for the configuration loaded
reaches_schedule(wt, loaded) ==
    /\ loaded.ok
    /\ loaded.config.directory \notin wt.watched_directories
    /\ loaded.truth_is_str

\* The process started in the working directory Cwd with the trees R (with
\* docs/) and W, each directory with or without a configuration file.
Absent == [present |-> FALSE, is_list |-> TRUE, items |-> <<>>]

AgentsList(items) == [present |-> TRUE, is_list |-> TRUE, items |-> items]

Agent(s) == [is_str |-> TRUE, value |-> s]

NoTruth == [present |-> FALSE, is_str |-> TRUE, value |-> <<"AGENT.md">>]

NoFlag == [present |-> FALSE, value |-> TRUE]

\* {agents: [Claude]}
ValidDocument ==
    [yaml |-> "mapping", agents |-> AgentsList(<<Agent("Claude")>>),
     truth_memory_file |-> NoTruth, respect_gitignore |-> NoFlag,
     recursive |-> NoFlag]

\* {agents: [gemini], recursive: false}
NonRecursiveDocument ==
    [ValidDocument EXCEPT !.agents = AgentsList(<<Agent("gemini")>>),
                          !.recursive = [present |-> TRUE, value |-> FALSE]]

\* documents with a configuration error: malformed, empty, no agents key,
\* unknown agent, agents not a list, an agent that is not a string,
\* truth_memory_file that is not a string
BadDocuments ==
    {[ValidDocument EXCEPT !.yaml = "malformed"],
     [ValidDocument EXCEPT !.yaml = "empty"],
     [ValidDocument EXCEPT !.agents = Absent],
     [ValidDocument EXCEPT !.agents = AgentsList(<<Agent("claude"),
                                                   Agent("copilot")>>)],
     [ValidDocument EXCEPT !.agents = [present |-> TRUE, is_list |-> FALSE,
                                       items |-> <<>>]],
     [ValidDocument EXCEPT !.agents =
         AgentsList(<<[is_str |-> FALSE, value |-> "123"]>>)],
     [ValidDocument EXCEPT !.truth_memory_file =
         [present |-> TRUE, is_str |-> FALSE, value |-> <<"123">>]]}

WatchDocuments == {ValidDocument, NonRecursiveDocument} \cup BadDocuments

\* the configuration files of the trees: any of the documents in R and in
\* R/docs, a valid one or none in W
AmpFiles ==
    {f \in UNION {[D -> WatchDocuments] : D \in SUBSET {Root, Docs, Cwd}} :
        Cwd \in DOMAIN f => f[Cwd] = ValidDocument}

Missing == <<"R", "missing">>

\* the values of AGENT_MEMORY_PATHS: unset, empty, one or two entries that
\* repeat, contain one another, do not exist or name a file
Environs ==
    {[set |-> FALSE, value |-> <<>>]}
    \cup {[set |-> TRUE, value |-> v] :
             v \in {<<>>, <<Root>>, <<Docs>>, <<Root, Root>>, <<Root, Docs>>,
                    <<Docs, Root>>, <<Missing, Root>>, <<Missing>>,
                    <<join(Root, <<"AGENT.md">>)>>}}

\* the line "docs" of a .gitignore
DocsLine == [name |-> "docs", dir_only |-> FALSE, negated |-> FALSE]

WatchInit ==
    /\ config = MemoryProxyConfig(Root, <<"claude">>, <<"AGENT.md">>, TRUE, TRUE)
    /\ fs = [q \in {join(Root, <<"AGENT.md">>), join(Docs, <<"AGENT.md">>),
                    join(Cwd, <<"AGENT.md">>)} |-> <<"x">>]
    /\ dirs = {Root, Docs, Cwd}
    /\ gitignores \in {[d \in {} |-> <<>>], (Root :> <<DocsLine>>)}
    /\ spec_cache = [q \in {} |-> <<>>]
    /\ debouncer = [delay |-> DEBOUNCE_DELAY, last_sync_time |-> 0,
                    syncing |-> FALSE]
    /\ now = DEBOUNCE_DELAY
    /\ queue = <<>>
    /\ pc = "start"
    /\ last = NoCall
    /\ nwrites = 0
    /\ io_faulted = FALSE
    /\ query = NoQuery
    /\ amp_files \in AmpFiles
    /\ environ \in Environs
    /\ watcher = NoWatcher
    /\ MoreInit

\* start() up to the loop over all_configs: resolve the path list, scan the
\* watch directories, exit when nothing is left
StartScan ==
    /\ watcher.pc = "init"
    /\ watcher' = start_resolved(watcher, world, amp_files,
                                 resolve_paths(world, os_environ_get(environ)))
    /\ UNCHANGED <<handler_vars, query, amp_files, environ>>
    /\ UNCHANGED more_vars

\* the step of AddWatcher once _add_watcher gave r
AddedWatcher(r) ==
    /\ watcher' = r.watcher
    /\ fs' = r.w.fs
    /\ dirs' = r.w.dirs
    /\ queue' = queue \o emitted(watcher, r.touched, "initial")

\* one iteration of "for config_path in all_configs: self._add_watcher(...)"
AddWatcher ==
    /\ watcher.pc = "adding"
    /\ watcher.pending # <<>>
    /\ AddedWatcher(add_watcher([watcher EXCEPT !.pending = Tail(@)], world,
                                gitignores, amp_files, Head(watcher.pending)))
    /\ UNCHANGED <<config, gitignores, spec_cache, debouncer, now, pc, last,
                   nwrites, io_faulted, query, amp_files, environ>>
    /\ UNCHANGED more_vars

\* self._observer.start() and return True
ObserverStart ==
    /\ watcher.pc = "adding"
    /\ watcher.pending = <<>>
    /\ watcher' = [watcher EXCEPT !.pc = "running", !.started = TRUE]
    /\ UNCHANGED <<handler_vars, query, amp_files, environ>>
    /\ UNCHANGED more_vars

\* the user writes the truth file p once start() has returned
WatchUserWrite(p) ==
    /\ watcher.pc = "running"
    /\ nwrites < MaxWrites
    /\ fs' = put(fs, p, <<"y">>)
    /\ queue' = queue \o emitted(watcher, <<p>>, "user")
    /\ nwrites' = nwrites + 1
    /\ last' = NoCall
    /\ UNCHANGED <<config, dirs, gitignores, spec_cache, debouncer, now, pc,
                   io_faulted, other_vars>>

\* the handler scheduled for the watch of the event e
handler_path(e) == join(e.watch, CONFIG_FILENAME)

\* the step of WatchDispatch once the handler's on_modified(e) gave r
WatchDispatched(e, r) ==
    /\ fs' = r.w.fs
    /\ dirs' = r.w.dirs
    /\ queue' = Tail(queue) \o emitted(watcher, r.touched, "handler")
    /\ watcher' = [watcher EXCEPT
                      !.handlers[handler_path(e)].debouncer = r.d,
                      !.handlers[handler_path(e)].spec_cache = r.cache]
    /\ last' = [kind |-> r.kind, path |-> e.src_path, targets |-> r.targets,
                attempted |-> r.attempted, outcomes |-> r.outcomes,
                raised |-> r.raised, cause |-> e.cause]

\* the handler h is called with the event e
WatchDispatchTo(e, h) ==
    WatchDispatched(e, on_modified(h.config, h.debouncer, world, gitignores,
                                   h.spec_cache, e, now, NoFault))

\* the observer's thread takes the oldest event and calls the handler of its
\* watch
WatchDispatch ==
    /\ watcher.started
    /\ queue # <<>>
    /\ handler_path(Head(queue)) \in DOMAIN watcher.handlers
    /\ WatchDispatchTo(Head(queue), watcher.handlers[handler_path(Head(queue))])
    /\ UNCHANGED <<config, gitignores, spec_cache, debouncer, now, pc, nwrites,
                   io_faulted, query, amp_files, environ, more_vars>>

WatchNext ==
    \/ StartScan
    \/ AddWatcher
    \/ ObserverStart
    \/ \E p \in {join(Root, <<"AGENT.md">>), join(Docs, <<"AGENT.md">>)} :
          WatchUserWrite(p)
    \/ WatchDispatch

WatchSpec == WatchInit /\ [][WatchNext]_vars

\* the configuration the next call of _add_watcher loads
next_loaded ==
    load_and_validate_config(parent(Head(watcher.pending)),
                             amp_files[parent(Head(watcher.pending))])

\* one iteration of the loop of start() in which observer.schedule raises
AddWatcherUnscheduled ==
    /\ watcher.pc = "adding"
    /\ watcher.pending # <<>>
    /\ reaches_schedule(watcher, next_loaded)
    /\ AddedWatcher(add_loaded_unscheduled(
                        [watcher EXCEPT !.pending = Tail(@)], world,
                        gitignores, Head(watcher.pending), next_loaded))
    /\ UNCHANGED <<config, gitignores, spec_cache, debouncer, now, pc, last,
                   nwrites, io_faulted, query, amp_files, environ>>
    /\ UNCHANGED more_vars

\* start() where observer.schedule may fail
RegistryNext ==
    \/ WatchNext
    \/ AddWatcherUnscheduled

RegistrySpec == WatchInit /\ [][RegistryNext]_vars

\* ------------------------------------------------ the debouncer on its own
\* A SyncDebouncer whose methods are called one after the other in any
\* order, as its unit tests do, while time passes.

\* the delays the debouncer is constructed with: the default and delay=0.1
Delays == {DEBOUNCE_DELAY, 2 * DEBOUNCE_DELAY}

\* SyncDebouncer.__init__
SyncDebouncer(delay) ==
    [delay |-> delay, last_sync_time |-> 0, syncing |-> FALSE]

\* the file system and the watcher take no part
Untouched ==
    /\ config = MemoryProxyConfig(Root, <<"claude">>, <<"AGENT.md">>, TRUE, TRUE)
    /\ fs = [q \in {} |-> <<>>]
    /\ dirs = {Root}
    /\ gitignores = [q \in {} |-> <<>>]
    /\ spec_cache = [q \in {} |-> <<>>]
    /\ queue = <<>>
    /\ pc = "start"
    /\ last = NoCall
    /\ nwrites = 0
    /\ io_faulted = FALSE
    /\ query = NoQuery
    /\ amp_files = [q \in {} |-> <<>>]
    /\ environ = [set |-> FALSE, value |-> <<>>]
    /\ watcher = NoWatcher

DebounceInit ==
    /\ Untouched
    /\ debouncer \in {SyncDebouncer(delay) : delay \in Delays}
    /\ now = 2 * DEBOUNCE_DELAY
    /\ call = NoMethodCall
    /\ loader = NotLoaded
    /\ threads = [t \in {} |-> <<>>]
    /\ observer = NoObserver

\* what only the debouncer's own steps change
debounce_frame ==
    <<config, fs, dirs, gitignores, spec_cache, queue, pc, last, nwrites,
      io_faulted, query, amp_files, environ, watcher, loader, threads,
      observer>>

\* debouncer.should_debounce()
ShouldDebounce ==
    /\ call' = [call EXCEPT !.op = "should_debounce",
                            !.result = should_debounce(debouncer, now)]
    /\ UNCHANGED <<debouncer, now, debounce_frame>>

\* debouncer.start_sync()
StartSync ==
    /\ debouncer' = start_sync(debouncer)
    /\ call' = [call EXCEPT !.op = "start_sync", !.result = FALSE,
                            !.in_progress = TRUE]
    /\ UNCHANGED <<now, debounce_frame>>

\* debouncer.finish_sync()
FinishSync ==
    /\ debouncer' = finish_sync(debouncer, now)
    /\ call' = [call EXCEPT !.op = "finish_sync", !.result = FALSE,
                            !.in_progress = FALSE, !.finished_at = now]
    /\ UNCHANGED <<now, debounce_frame>>

\* time.sleep
Sleep ==
    /\ now + TickMs <= 2 * DEBOUNCE_DELAY + MaxTicks * TickMs
    /\ now' = now + TickMs
    /\ call' = [call EXCEPT !.op = "none", !.result = FALSE]
    /\ UNCHANGED <<debouncer, debounce_frame>>

DebounceNext ==
    \/ ShouldDebounce
    \/ StartSync
    \/ FinishSync
    \/ Sleep

DebounceSpec == DebounceInit /\ [][DebounceNext]_vars

\* ------------------------------------------------- the loader on its own
\* MemoryProxyConfig(config_path) called for R/.amp.yaml holding a mapping
\* with an agents key.

\* the entries of an agents list: known identifiers in several spellings, an
\* unknown identifier and an entry that is not a string
AgentItems ==
    {Agent("claude"), Agent("Claude"), Agent("GEMINI"), Agent("cursor"),
     Agent("copilot"), [is_str |-> FALSE, value |-> "123"]}

AgentLists == UNION {[1..n -> AgentItems] : n \in 0..MaxAgents}

\* truth_memory_file: NOTES.md
NotesTruth == [present |-> TRUE, is_str |-> TRUE, value |-> <<"NOTES.md">>]

LoadDocuments ==
    {[ValidDocument EXCEPT !.agents = AgentsList(items),
                           !.truth_memory_file = t] :
        items \in AgentLists, t \in {NoTruth, NotesTruth}}
    \cup {[ValidDocument EXCEPT !.agents = [present |-> TRUE,
                                            is_list |-> FALSE,
                                            items |-> <<>>],
                                !.truth_memory_file = t] :
             t \in {NoTruth, NotesTruth}}

\* self.mappings after the constructor returned or raised: the empty dict of
\* __init__ unless validation passed
constructed_mappings(r) == IF r.ok THEN r.config.mappings ELSE <<>>

LoadInit ==
    /\ config = MemoryProxyConfig(Root, <<"claude">>, <<"AGENT.md">>, TRUE, TRUE)
    /\ fs = [q \in {} |-> <<>>]
    /\ dirs = {Root}
    /\ gitignores = [q \in {} |-> <<>>]
    /\ spec_cache = [q \in {} |-> <<>>]
    /\ debouncer = SyncDebouncer(DEBOUNCE_DELAY)
    /\ now = DEBOUNCE_DELAY
    /\ queue = <<>>
    /\ pc = "start"
    /\ last = NoCall
    /\ nwrites = 0
    /\ io_faulted = FALSE
    /\ query = NoQuery
    /\ amp_files \in {(Root :> doc) : doc \in LoadDocuments}
    /\ environ = [set |-> FALSE, value |-> <<>>]
    /\ watcher = NoWatcher
    /\ MoreInit

\* the step of Load once the constructor returned or raised r
Loaded(r) ==
    loader' = [called |-> TRUE, ok |-> r.ok,
               mappings |-> constructed_mappings(r)]

\* MemoryProxyConfig(R/.amp.yaml)
Load ==
    /\ ~loader.called
    /\ Loaded(load_and_validate_config(Root, amp_files[Root]))
    /\ UNCHANGED <<handler_vars, query, amp_files, environ, watcher, call,
                   threads, observer>>

LoadNext == Load

LoadSpec == LoadInit /\ [][LoadNext]_vars

\* ------------------------------------------------ the callback step by step
\* One handler for R whose on_modified is called by the threads that deliver
\* events: the statements of the callback are separate steps, so that a
\* second call, time and stop() can come between them.

\* the gate of _should_process_file as on_modified sees it: [kind, cache]
gate_kind(sp) ==
    [kind |-> IF sp.process THEN "passed" ELSE sp.why, cache |-> sp.cache]

\* on_modified up to the call of _process_file_modification: kind is
\* "directory", "ignored" or "debounced" (returned), "raised" (path.is_file()
\* of is_ignored raised, fault = "stat") or "passed"
on_modified_entered(cfg, d, w, gi, cache, event, current_time, fault) ==
    IF event.is_directory THEN [kind |-> "directory", cache |-> cache]
    ELSE IF cfg.respect_gitignore /\ fault = "stat"
    THEN [kind |-> "raised", cache |-> cache]
    ELSE gate_kind(should_process_file(cfg, d, w, gi, cache, event.src_path,
                                       current_time))

\* Results of the try block of _process_file_modification are
\* [d, w, targets, touched, finished, raised]; finished says finish_sync was
\* called.
\* the try block after _sync_all_targets gave r
try_synced(started, sync_targets, current_time, r) ==
    [d |-> IF r.raised THEN started ELSE finish_sync(started, current_time),
     w |-> r.w, targets |-> sync_targets, touched |-> r.touched,
     finished |-> ~r.raised, raised |-> r.raised]

\* the try block with finish_sync called also when no target was resolved
try_block_always_finishing(started, w, sync_targets, current_time, flt) ==
    IF sync_targets = <<>>
    THEN [d |-> finish_sync(started, current_time), w |-> w,
          targets |-> <<>>, touched |-> <<>>, finished |-> TRUE,
          raised |-> FALSE]
    ELSE try_synced(started, sync_targets, current_time,
                    sync_all_targets(w, sync_targets, 1, flt))

\* the try block of _process_file_modification
try_block(started, w, sync_targets, current_time, flt) ==
    IF sync_targets = <<>>
    THEN [d |-> started, w |-> w, targets |-> <<>>, touched |-> <<>>,
          finished |-> FALSE, raised |-> FALSE]
    ELSE try_synced(started, sync_targets, current_time,
                    sync_all_targets(w, sync_targets, 1, flt))

\* the finally clause of _process_file_modification
finally_clause(d) == IF d.syncing THEN [d EXCEPT !.syncing = FALSE] ELSE d

\* observer.join() returns at once, whatever its threads are doing
join_returns_at_once(ths) == TRUE

\* observer.join() returns once no thread is inside a callback
join_returns(ths) == \A t \in DOMAIN ths : ths[t].pc \in {"idle", "dead"}

NoEvent == [src_path |-> <<>>, is_directory |-> FALSE, cause |-> "none"]

\* a thread that waits for the next event
Idle ==
    [pc |-> "idle", event |-> NoEvent, kind |-> "none", starts |-> 0,
     finishes |-> 0, targets |-> <<>>]

\* the events delivered: the truth file at the root and in docs/, an
\* unrelated file, and the directory docs/
Events ==
    {[src_path |-> p, is_directory |-> FALSE, cause |-> "user"] :
        p \in {join(Root, <<"AGENT.md">>), join(Docs, <<"AGENT.md">>),
               Unrelated}}
    \cup {[src_path |-> Docs, is_directory |-> TRUE, cause |-> "user"]}

\* the handler of R/.amp.yaml = {agents: [claude]} with or without gitignore
\* filtering, R/.gitignore holding "docs/", the observer running
CallbackInit(T) ==
    /\ config \in {MemoryProxyConfig(Root, <<"claude">>, <<"AGENT.md">>, g, TRUE) :
                      g \in BOOLEAN}
    /\ fs = [q \in {join(Root, <<"AGENT.md">>), join(Docs, <<"AGENT.md">>),
                    Unrelated} |-> <<"x">>]
    /\ dirs = {Root, Docs}
    /\ gitignores = (Root :> <<DocsIgnored>>)
    /\ spec_cache = [q \in {} |-> <<>>]
    /\ debouncer = SyncDebouncer(DEBOUNCE_DELAY)
    /\ now = DEBOUNCE_DELAY
    /\ queue = <<>>
    /\ pc = "watching"
    /\ last = NoCall
    /\ nwrites = 0
    /\ io_faulted = FALSE
    /\ query = NoQuery
    /\ amp_files = [q \in {} |-> <<>>]
    /\ environ = [set |-> FALSE, value |-> <<>>]
    /\ watcher = NoWatcher
    /\ call = NoMethodCall
    /\ loader = NotLoaded
    /\ threads = [t \in T |-> Idle]
    /\ observer = [state |-> "running", delivered |-> 0, written |-> 0,
                   stop_in_flight |-> FALSE]

\* what the steps of a callback leave alone
callback_frame ==
    <<config, gitignores, now, queue, pc, last, nwrites, io_faulted, query,
      amp_files, environ, watcher, call, loader>>

\* the step of Enter once on_modified_entered gave r
Entered(t, e, r) ==
    /\ spec_cache' = r.cache
    /\ threads' = [threads EXCEPT ![t] =
                      [Idle EXCEPT !.event = e,
                                   !.kind = r.kind,
                                   !.pc = IF r.kind = "passed" THEN "start"
                                          ELSE IF r.kind = "raised" THEN "dead"
                                          ELSE "idle"]]

\* thread t calls handler.on_modified(e): the directory test, the gitignore
\* check and the debounce check
Enter(t, e, fault) ==
    /\ observer.state = "running"
    /\ threads[t].pc = "idle"
    /\ observer.delivered < MaxDeliveries
    /\ Entered(t, e, on_modified_entered(config, debouncer, world, gitignores,
                                         spec_cache, e, now, fault))
    /\ observer' = [observer EXCEPT !.delivered = @ + 1]
    /\ UNCHANGED <<fs, dirs, debouncer, callback_frame>>

\* self.debouncer.start_sync()
Start(t) ==
    /\ threads[t].pc = "start"
    /\ debouncer' = start_sync(debouncer)
    /\ threads' = [threads EXCEPT ![t].pc = "try", ![t].starts = @ + 1]
    /\ UNCHANGED <<fs, dirs, spec_cache, observer, callback_frame>>

\* the step of Try once the try block gave r
Tried(t, r) ==
    /\ debouncer' = r.d
    /\ fs' = r.w.fs
    /\ dirs' = r.w.dirs
    /\ threads' = [threads EXCEPT
                      ![t].pc = "finally",
                      ![t].targets = r.targets,
                      ![t].finishes = IF r.finished THEN @ + 1 ELSE @]
    /\ observer' = [observer EXCEPT !.written = @ + Len(r.touched)]

\* the try block: find_sync_targets, _sync_all_targets, finish_sync
Try(t) ==
    /\ threads[t].pc = "try"
    /\ Tried(t, try_block(debouncer, world,
                          find_sync_targets(config, threads[t].event.src_path),
                          now, NoFault))
    /\ UNCHANGED <<spec_cache, callback_frame>>

\* the finally clause, and on_modified returns
Finally(t) ==
    /\ threads[t].pc = "finally"
    /\ debouncer' = finally_clause(debouncer)
    /\ threads' = [threads EXCEPT ![t].pc = "idle", ![t].kind = "processed"]
    /\ UNCHANGED <<fs, dirs, spec_cache, observer, callback_frame>>

\* stop(): self._observer.stop(), no event is delivered from now on
Stop ==
    /\ observer.state = "running"
    /\ observer' = [observer EXCEPT
                       !.state = "stopping",
                       !.stop_in_flight = ~join_returns(threads)]
    /\ UNCHANGED <<fs, dirs, spec_cache, debouncer, threads, callback_frame>>

\* stop(): self._observer.join() returns, and stop() with it
Join ==
    /\ observer.state = "stopping"
    /\ join_returns(threads)
    /\ observer' = [observer EXCEPT !.state = "stopped"]
    /\ UNCHANGED <<fs, dirs, spec_cache, debouncer, threads, callback_frame>>

CallbackNext(T) ==
    \/ \E t \in T, e \in Events : Enter(t, e, "none")
    \/ \E t \in T, e \in Events : Enter(t, e, "stat")
    \/ \E t \in T : Start(t)
    \/ \E t \in T : Try(t)
    \/ \E t \in T : Finally(t)
    \/ Tick
    \/ Stop
    \/ Join

\* the callbacks delivered by the one thread of the Observer
ObserverThreads == {1}

CallbackSpec == CallbackInit(ObserverThreads) /\ [][CallbackNext(ObserverThreads)]_vars

\* the callbacks delivered by two threads
TwoThreads == {1, 2}

ThreadSpec == CallbackInit(TwoThreads) /\ [][CallbackNext(TwoThreads)]_vars

\* ------------------------------------------- a tree with ignored truth files
\* The handler of {agents: [claude]} with gitignore filtering, recursive or
\* not, started on a tree that holds the truth file at the root and in docs/
\* while R/.gitignore ignores the truth file by name or the directory docs/.

\* the line "AGENT.md" of a .gitignore
TruthLine == [name |-> "AGENT.md", dir_only |-> FALSE, negated |-> FALSE]

FilterInit ==
    /\ config \in {MemoryProxyConfig(Root, <<"claude">>, <<"AGENT.md">>, TRUE, r) :
                      r \in BOOLEAN}
    /\ fs = [q \in {join(Root, <<"AGENT.md">>), join(Docs, <<"AGENT.md">>)}
                |-> <<"x">>]
    /\ dirs = {Root, Docs}
    /\ gitignores \in {(Root :> <<TruthLine>>), (Root :> <<DocsIgnored>>)}
    /\ spec_cache = [q \in {} |-> <<>>]
    /\ debouncer = SyncDebouncer(DEBOUNCE_DELAY)
    /\ now = DEBOUNCE_DELAY
    /\ queue = <<>>
    /\ pc = "start"
    /\ last = NoCall
    /\ nwrites = 0
    /\ io_faulted = FALSE
    /\ query = NoQuery
    /\ amp_files = [q \in {} |-> <<>>]
    /\ environ = [set |-> FALSE, value |-> <<>>]
    /\ watcher = NoWatcher
    /\ MoreInit

FilterSpec == FilterInit /\ [][Next]_vars

\* ------------------------------------------------- the matcher on its own
\* FileMatcher.find_sync_targets called for one path with each configuration
\* of Init, recursive or not.

\* the paths find_sync_targets is called with: the truth file at the root,
\* files with its name in subdirectories and outside the watched directory,
\* a target, other files and directories
MatchPaths ==
    {join(Root, config.truth_memory_file),
     join(Docs, config.truth_memory_file),
     join(<<"R", "docs", "deep">>, config.truth_memory_file),
     join(<<"R", ".cursor", "rules">>, config.truth_memory_file),
     join(<<"X">>, config.truth_memory_file),
     join(<<"X", "R">>, config.truth_memory_file),
     config.truth_memory_file,
     <<"R", "README.md">>, <<"R", "CLAUDE.md">>, <<"R", "docs", "GEMINI.md">>,
     <<"R", "docs">>, <<"X", "README.md">>}

\* file_matcher.find_sync_targets(modified_file)
FindSyncTargets(modified_file) ==
    /\ last' = [NoCall EXCEPT
                   !.kind = "matched",
                   !.path = modified_file,
                   !.targets = find_sync_targets(config, modified_file)]
    /\ UNCHANGED <<config, fs, dirs, gitignores, spec_cache, debouncer, now,
                   queue, pc, nwrites, io_faulted>>
    /\ UNCHANGED other_vars

MatchNext == \E modified_file \in MatchPaths : FindSyncTargets(modified_file)

MatchSpec == Init /\ [][MatchNext]_vars

\* ------------------------------------------------------------------- claims
\* the truth file of the configuration, at the root and in docs/
RootTruth == join(config.directory, config.truth_memory_file)

NestedTruth == join(Docs, config.truth_memory_file)

\* the target of the i-th mapping beside the source file f
target_beside(f, i) == join(parent(f), config.mappings[i].target)

\* content that a text-mode copy cannot alter: no carriage return and no
\* byte that is not valid UTF-8
Plain(c) == \A i \in 1..Len(c) : c[i] \notin {"CR", "BAD"}

\* one pair per mapping, in the order of the mappings, each with the target
\* beside the source f
pairs_beside(f) ==
    [i \in 1..Len(config.mappings) |->
        [source |-> f, target |-> target_beside(f, i)]]

\* C1: once modifications of the truth file have stopped and every delivered
\* change event has been handled (the watch is on and no event is pending),
\* each target mapped from the truth file holds the truth file's content,
\* whatever the timing of the events relative to the debounce window.  Stated
\* for content that a text-mode copy preserves.
C1_EventualConsistency ==
    (/\ pc = "watching"
     /\ queue = <<>>
     /\ RootTruth \in DOMAIN fs
     /\ Plain(fs[RootTruth]))
    => \A i \in 1..Len(config.mappings) :
          /\ target_beside(RootTruth, i) \in DOMAIN fs
          /\ fs[target_beside(RootTruth, i)] = fs[RootTruth]

\* C2: an event for the truth file that the handler gates less than the
\* debounce delay after the completion of a sync runs no propagation pass
\* (sync_file is not called, nothing is written, the debouncer is unchanged);
\* one that arrives more than the delay after the last completed sync runs a
\* pass that calls sync_file once per mapping and stamps the completion time.
C2_DebounceIdempotence ==
    [][(last'.kind \in {"debounced", "processed"} /\ last'.path = RootTruth)
       => /\ (/\ debouncer.last_sync_time > 0
              /\ now - debouncer.last_sync_time < DEBOUNCE_DELAY)
             => /\ last'.kind = "debounced"
                /\ last'.attempted = <<>>
                /\ fs' = fs
                /\ debouncer' = debouncer
          /\ (now - debouncer.last_sync_time > DEBOUNCE_DELAY)
             => /\ last'.kind = "processed"
                /\ last'.attempted = pairs_beside(RootTruth)
                /\ debouncer'.last_sync_time = now]_vars

\* a sync of the truth file completed and a later event for it was dropped
C2_Witness ==
    /\ last.kind = "debounced"
    /\ last.path = RootTruth
    /\ debouncer.last_sync_time > 0
    /\ now - debouncer.last_sync_time < DEBOUNCE_DELAY
    /\ \A i \in 1..Len(config.mappings) :
          target_beside(RootTruth, i) \in DOMAIN fs

\* C3: after sync_file(source, target) for an existing source, in a pass of
\* the handler or in the initial sync, the target holds exactly the bytes of
\* the source.
C3_RoundTrip ==
    last.kind \in {"processed", "initial"}
    => \A i \in 1..Len(last.attempted) :
          last.attempted[i].source \in DOMAIN fs
          => /\ last.attempted[i].target \in DOMAIN fs
             /\ fs[last.attempted[i].target] = fs[last.attempted[i].source]

\* C4: with recursive on, the change event caused by a write of the handler
\* itself resolves to zero sync targets.
C4_NoFeedbackLoop ==
    (config.recursive /\ last.cause = "handler") => last.targets = <<>>

\* paths probed for find_sync_targets: files with the truth file's name below
\* the watched directory
NestedProbes ==
    {NestedTruth,
     join(<<"R", "docs", "deep">>, config.truth_memory_file),
     join(<<"R", ".cursor", "rules">>, config.truth_memory_file)}

\* paths probed for find_sync_targets: files and directories inside and
\* outside the watched directory
Probes ==
    {<<"R", "README.md">>, <<"R", "docs", "README.md">>, <<"X", "README.md">>,
     <<"R", "AGENT.md">>, <<"R", "CLAUDE.md">>, <<"R", "docs", "GEMINI.md">>,
     <<"R", ".cursor", "rules", "project.mdc">>, <<"R", "docs">>, <<"X">>}

\* C5: for the modified file directory / truth_file, find_sync_targets
\* returns exactly one pair per entry of the mapping table, each
\* (modified_file, directory / target_rel), in the order of the table; the
\* handler's pass for an event on that file resolves the same list.
C5_DirectMatchTargets ==
    /\ find_sync_targets(config, RootTruth) = pairs_beside(RootTruth)
    /\ (last.kind = "processed" /\ last.path = RootTruth)
       => last.targets = pairs_beside(RootTruth)

\* a pass for the truth file of a table of two mappings
C5_Witness ==
    /\ last.kind = "processed"
    /\ last.path = RootTruth
    /\ Len(config.mappings) = 2
    /\ Len(last.targets) = 2
    /\ last.targets[1].target = <<"R", "GEMINI.md">>
    /\ last.targets[2].target = <<"R", "CLAUDE.md">>

\* C6: with recursive on, for a modified file with the truth file's name at
\* depth >= 1 under the watched directory, every pair of find_sync_targets
\* has the target modified_file.parent / target_rel and not
\* directory / target_rel.
C6_RecursiveColocated ==
    config.recursive
    => /\ \A f \in NestedProbes :
             /\ find_sync_targets(config, f) = pairs_beside(f)
             /\ \A i \in 1..Len(config.mappings) :
                   find_sync_targets(config, f)[i].target
                      # join(config.directory, config.mappings[i].target)
       /\ (last.kind = "processed" /\ last.path \in NestedProbes)
          => last.targets = pairs_beside(last.path)

\* a pass for the truth file in docs/ wrote the target in docs/
C6_Witness ==
    /\ config.recursive
    /\ last.kind = "processed"
    /\ last.path = NestedTruth
    /\ last.outcomes # <<>>
    /\ last.outcomes[1] = "synced"
    /\ target_beside(NestedTruth, 1) \in DOMAIN fs
    /\ target_beside(RootTruth, 1) \notin DOMAIN fs

\* C7: for a modified file whose name is not the name of a configured source
\* file, find_sync_targets returns the empty list, whatever the recursive
\* flag and wherever the file lies, and the handler call for an event on such
\* a file calls sync_file for no pair and writes no file.
C7_NoMatchNoWrite ==
    [][/\ \A f \in Probes :
             name(f) # name(RootTruth) => find_sync_targets(config, f) = <<>>
       /\ (/\ last'.kind \in {"directory", "ignored", "debounced", "processed"}
           /\ name(last'.path) # name(RootTruth))
          => /\ last'.targets = <<>>
             /\ last'.attempted = <<>>
             /\ fs' = fs
             /\ dirs' = dirs]_vars

\* the handler processed an event for the unrelated file
C7_Witness ==
    /\ last.kind = "processed"
    /\ last.path = Unrelated
    /\ last.targets = <<>>

\* C8: a pass whose source file does not exist calls sync_file for every
\* resolved pair, each call returns normally by the early return, and the
\* file system is unchanged: no target and no parent directory is created.
C8_MissingSource ==
    [][(/\ last'.kind = "processed"
        /\ last'.targets # <<>>
        /\ ~exists(world, last'.path))
       => /\ fs' = fs
          /\ dirs' = dirs
          /\ ~last'.raised
          /\ Len(last'.outcomes) = Len(last'.targets)
          /\ \A i \in 1..Len(last'.outcomes) : last'.outcomes[i] = "missing"]_vars

\* a pass for a deleted truth file left the target and its directory absent
C8_Witness ==
    /\ last.kind = "processed"
    /\ last.outcomes # <<>>
    /\ last.outcomes[1] = "missing"
    /\ last.path \notin DOMAIN fs
    /\ last.attempted[1].target \notin DOMAIN fs
    /\ parent(last.attempted[1].target) \notin dirs

\* C9: in a pass where the read of the source or the write of a target
\* fails, no exception leaves sync_file or the handler call, sync_file is
\* called for every resolved pair in order, and the debouncer is not left
\* syncing.
C9_BatchIsolation ==
    last.kind = "processed"
    => /\ ~last.raised
       /\ last.attempted = last.targets
       /\ Len(last.outcomes) = Len(last.targets)
       /\ ~debouncer.syncing

\* the sync of the first target failed and the second target was synced
C9_Witness ==
    /\ last.kind = "processed"
    /\ io_faulted
    /\ Len(last.outcomes) = 2
    /\ last.outcomes[1] = "error"
    /\ last.outcomes[2] = "synced"
    /\ fs[last.attempted[2].target] = fs[last.path]

\* C10: when directory / source_name exists, after initial_sync every file
\* directory / target_rel of the mapping table exists and holds the content
\* of directory / source_name.
C10_InitialSyncDirect ==
    (last.kind = "initial" /\ RootTruth \in DOMAIN fs)
    => \A i \in 1..Len(config.mappings) :
          /\ target_beside(RootTruth, i) \in DOMAIN fs
          /\ fs[target_beside(RootTruth, i)] = fs[RootTruth]

\* the gitignore filter of the handler does not ignore the truth file in docs/
NestedTruthKept ==
    ~filter_verdict(config, world, gitignores, [q \in {} |-> <<>>],
                    NestedTruth).ignored

\* C11: after initial_sync with recursive on and no truth file at the root,
\* a non-ignored truth file in a subdirectory has every target written beside
\* it with its content and no target is created at the root; when there is no
\* such file to use (none exists, or recursive is off) initial_sync calls
\* sync_file for no pair, writes nothing and completes.
C11_InitialSyncNested ==
    (last.kind = "initial" /\ RootTruth \notin DOMAIN fs)
    => /\ (config.recursive /\ NestedTruth \in DOMAIN fs /\ NestedTruthKept)
          => \A i \in 1..Len(config.mappings) :
                /\ target_beside(NestedTruth, i) \in DOMAIN fs
                /\ fs[target_beside(NestedTruth, i)] = fs[NestedTruth]
                /\ target_beside(RootTruth, i) \notin DOMAIN fs
       /\ (~config.recursive \/ NestedTruth \notin DOMAIN fs)
          => /\ last.attempted = <<>>
             /\ \A i \in 1..Len(config.mappings) :
                   /\ target_beside(NestedTruth, i) \notin DOMAIN fs
                   /\ target_beside(RootTruth, i) \notin DOMAIN fs

\* a pass that raised out of _sync_all_targets in its first call of sync_file
RaisedPass ==
    pass_aborted([source |-> RootTruth, target |-> target_beside(RootTruth, 1)],
                 [w |-> world, outcome |-> "error", raised |-> TRUE,
                  touched |-> FALSE])

\* C20: the debouncer's syncing flag is false whenever on_modified has
\* returned, whichever way it left: directory event, ignored path, debounced
\* event, no matching target, completed propagation; and the end of
\* _process_file_modification resets the flag also when an exception passes
\* through it.
C20_SyncingReset ==
    /\ last.kind \in {"directory", "ignored", "debounced", "processed"}
       => ~debouncer.syncing
    /\ ~process_synced(start_sync(debouncer), pairs_beside(RootTruth), now,
                       RaisedPass).d.syncing

\* a pass that resolved no target returned after start_sync, without
\* finish_sync
C20_Witness ==
    /\ last.kind = "processed"
    /\ last.targets = <<>>
    /\ debouncer.last_sync_time = 0
    /\ ~debouncer.syncing

\* the lines of the .gitignore file of directory d, none when there is none
lines_in(d) == IF d \in DOMAIN gitignores THEN gitignores[d] ELSE <<>>

\* the lines of every .gitignore from the root down to directory d of the
\* tree, root first (d is the root, a child or a grandchild of the root)
rules_down_to(d) ==
    IF d = Root THEN lines_in(Root)
    ELSE IF parent(d) = Root THEN lines_in(Root) \o lines_in(d)
    ELSE lines_in(Root) \o lines_in(parent(d)) \o lines_in(d)

\* the directory whose rule set the latest call of is_ignored used
query_directory == containing_directory(world, query.path)

\* C18: a call of is_ignored that loads the rule set of a directory stores
\* the lines of every .gitignore from the root down to it, root first, and a
\* later line overrides an earlier one: with "*.tmp" at the root and
\* "!keep.tmp" in docs/, docs/keep.tmp is not ignored while every other
\* .tmp file of docs/ and every .tmp file of the root, keep.tmp included, is.
C18_GitignorePrecedence ==
    (query.kind = "is_ignored" /\ query.fresh)
    => /\ spec_cache[query_directory] = rules_down_to(query_directory)
       /\ (gitignores = NestedGitignores
           /\ name(query.path) \in TmpNames /\ Len(query.path) > 1)
          => (query.ignored <=> query.path # join(Docs, <<"keep.tmp">>))

\* is_ignored(docs/keep.tmp) loaded both .gitignore files and answered false
C18_Witness ==
    /\ query.kind = "is_ignored"
    /\ query.fresh
    /\ gitignores = NestedGitignores
    /\ query.path = join(Docs, <<"keep.tmp">>)
    /\ ~query.ignored
    /\ spec_cache[Docs] = <<TmpLine, KeepLine>>

\* C19: a call of is_ignored for a path outside the root answers false and
\* leaves the spec cache as it was, whatever .gitignore files exist; a call
\* that loads the rule set of a directory to which no .gitignore applies
\* stores the no-rules marker and answers false.
C19_OutsideRootNotIgnored ==
    [][query'.kind = "is_ignored"
       => /\ ~is_relative_to(query'.path, Root)
             => (~query'.ignored /\ spec_cache' = spec_cache)
          /\ (query'.fresh /\ rules_down_to(query_directory') = <<>>)
             => (~query'.ignored /\ spec_cache'[query_directory'] = <<>>)]_vars

\* is_ignored answered false for the path outside the root while a root
\* .gitignore ignores its name and a rule set is cached
C19_Witness ==
    /\ query.kind = "is_ignored"
    /\ query.path = Outside
    /\ ~query.ignored
    /\ Root \in DOMAIN gitignores
    /\ gitignores[Root] = <<TmpLine>>
    /\ Root \in DOMAIN spec_cache

\* C18 as stated, for every call: the rule set used for a directory is the
\* lines of the .gitignore files that exist at the time of the call, and the
\* verdicts of the example follow from them.
C18_AsStated ==
    (query.kind = "is_ignored" /\ is_relative_to(query.path, Root))
    => /\ spec_cache[query_directory] = rules_down_to(query_directory)
       /\ (gitignores = NestedGitignores
           /\ name(query.path) \in TmpNames /\ Len(query.path) > 1)
          => (query.ignored <=> query.path # join(Docs, <<"keep.tmp">>))

\* C19 as stated, for every call: is_ignored answers false whenever no
\* .gitignore applies to the directory of the path at the time of the call.
C19_AsStated ==
    [][query'.kind = "is_ignored"
       => /\ ~is_relative_to(query'.path, Root)
             => (~query'.ignored /\ spec_cache' = spec_cache)
          /\ rules_down_to(query_directory') = <<>> => ~query'.ignored]_vars

\* the document of the configuration file config_path
doc_of(config_path) == amp_files[parent(config_path)]

\* the registration state of the watcher is the same after the step
RegistryUnchanged ==
    /\ watcher'.handlers = watcher.handlers
    /\ watcher'.watched_directories = watcher.watched_directories
    /\ watcher'.scheduled = watcher.scheduled

\* the next call of _add_watcher is for a configuration file whose document
\* satisfies P
AddingNext(P(_)) ==
    /\ watcher.pc = "adding"
    /\ watcher.pending # <<>>
    /\ P(Head(watcher.pending))

AlreadyWatched(config_path) ==
    parent(config_path) \in watcher.watched_directories

\* C12: no directory is scheduled with the observer twice, and a call of
\* _add_watcher for a configuration whose directory is already registered
\* returns without an initial sync, without writing a file and with handlers,
\* watched_directories and the scheduled watches unchanged; start() goes on.
C12_WatchRegistry ==
    [][/\ \A i, j \in 1..Len(watcher'.scheduled) :
             i # j => watcher'.scheduled[i].path # watcher'.scheduled[j].path
       /\ AddingNext(AlreadyWatched)
          => /\ fs' = fs
             /\ dirs' = dirs
             /\ RegistryUnchanged
             /\ watcher'.pc = "adding"]_vars

\* the configuration of R was found twice and skipped the second time
C12_Witness ==
    /\ watcher.last.kind = "duplicate"
    /\ watcher.all_configs = <<join(Root, CONFIG_FILENAME),
                               join(Root, CONFIG_FILENAME)>>
    /\ Len(watcher.scheduled) = 1
    /\ watcher.watched_directories = {Root}

\* the value of the document's recursive key, true when the key is absent
recursive_key(doc) ==
    IF doc.recursive.present THEN doc.recursive.value ELSE TRUE

\* C13: every registered handler's configuration has the recursive flag its
\* document gives (true when the key is absent, the document's value when
\* present), and the directory is scheduled with that flag.
C13_RecursiveKey ==
    /\ \A cp \in DOMAIN watcher.handlers :
          watcher.handlers[cp].config.recursive = recursive_key(doc_of(cp))
    /\ \A i \in 1..Len(watcher.scheduled) :
          watcher.scheduled[i].recursive
             = recursive_key(amp_files[watcher.scheduled[i].path])

\* C14: when AGENT_MEMORY_PATHS is unset or empty, start() ends in
\* sys.exit with a nonzero code: no directory is scanned, no initial sync
\* writes a file, no handler is registered and the observer is not started.
C14_NoPathsFatal ==
    ((~environ.set \/ environ.value = <<>>) /\ watcher.pc # "init")
    => /\ watcher.pc = "exited"
       /\ watcher.exit_code # 0
       /\ watcher.scanned = <<>>
       /\ DOMAIN watcher.handlers = {}
       /\ watcher.scheduled = <<>>
       /\ ~watcher.started
       /\ \A p \in DOMAIN fs : name(p) = "AGENT.md"

HasConfigError(config_path) == doc_of(config_path) \in BadDocuments

\* every target of the handler registered for config_path exists
InitiallySynced(wt, files, config_path) ==
    \A i \in 1..Len(wt.handlers[config_path].config.mappings) :
        join(parent(config_path),
             wt.handlers[config_path].config.mappings[i].target)
           \in DOMAIN files

C16_NoNestedRegistration ==
    \A d1, d2 \in watcher.watched_directories :
        d1 # d2 => ~is_relative_to(d2, d1)

\* the directories strictly between the watch root r and the file p that
\* the gitignore rules of r ignore
ignored_above(r, p) ==
    {a \in ancestors(p) :
        /\ a # r
        /\ is_relative_to(a, r)
        /\ is_ignored(world, gitignores, r, [q \in {} |-> <<>>], a).ignored}

\* C17: no discovered configuration file lies inside a directory that the
\* gitignore rules of the watch root it was found under ignore, so no such
\* directory is registered.
C17_IgnoredNotDiscovered ==
    \A i \in 1..Len(watcher.all_configs), j \in 1..Len(watcher.scanned) :
        ignored_above(watcher.scanned[j], watcher.all_configs[i]) = {}

\* C21: should_debounce() answers true exactly when a sync is in progress
\* (start_sync was called and finish_sync has not been since) or less than
\* the delay has passed since the latest finish_sync: false on a fresh
\* debouncer, true between start_sync and finish_sync, true right after
\* finish_sync, false once the delay has passed with no sync in progress;
\* and the call changes neither field of the debouncer.
C21_ShouldDebounce ==
    [][call'.op = "should_debounce"
       => /\ call'.result
             <=> \/ call.in_progress
                 \/ /\ call.finished_at >= 0
                    /\ now - call.finished_at < debouncer.delay
          /\ (~call.in_progress /\ call.finished_at < 0) => ~call'.result
          /\ call.in_progress => call'.result
          /\ (call.finished_at = now) => call'.result
          /\ (~call.in_progress /\ call.finished_at >= 0
              /\ now - call.finished_at >= debouncer.delay) => ~call'.result
          /\ debouncer' = debouncer]_vars

\* should_debounce answered false exactly the delay after finish_sync
C21_Witness ==
    /\ call.op = "should_debounce"
    /\ ~call.result
    /\ ~call.in_progress
    /\ call.finished_at >= 0
    /\ now - call.finished_at = debouncer.delay

\* the fixed target path of an agent identifier, in any spelling
target_of(s) ==
    IF s \in {"claude", "Claude"} THEN <<"CLAUDE.md">>
    ELSE IF s \in {"gemini", "GEMINI"} THEN <<"GEMINI.md">>
    ELSE IF s = "cursor" THEN <<".cursor", "rules", "project.mdc">>
    ELSE <<"QWEN.md">>

\* the entry of an agents list is a known identifier
known_agent(item) ==
    /\ item.is_str
    /\ item.value \in {"claude", "Claude", "gemini", "GEMINI", "cursor", "qwen"}

\* the agents value of the loaded document
agents_loaded == amp_files[Root].agents

\* the truth file the loaded document names, AGENT.md when it names none
truth_loaded ==
    IF amp_files[Root].truth_memory_file.present
    THEN amp_files[Root].truth_memory_file.value ELSE <<"AGENT.md">>

\* C22: the loader accepts a document exactly when its agents value is a
\* list whose entries are all strings naming known agents in any letter
\* case; the mapping table then has exactly one entry per distinct known
\* agent, keyed by the agent's fixed target path (unique keys), each with the
\* source truth_memory_file (AGENT.md by default); a non-list agents value, a
\* non-string entry or an unknown identifier rejects the whole document and
\* leaves no mappings.
C22_MappingTable ==
    loader.called
    => IF /\ agents_loaded.is_list
          /\ \A i \in 1..Len(agents_loaded.items) :
                known_agent(agents_loaded.items[i])
       THEN /\ loader.ok
            /\ \A i \in 1..Len(agents_loaded.items) :
                  \E j \in 1..Len(loader.mappings) :
                     loader.mappings[j].target
                        = target_of(agents_loaded.items[i].value)
            /\ \A j \in 1..Len(loader.mappings) :
                  /\ loader.mappings[j].source = truth_loaded
                  /\ \E i \in 1..Len(agents_loaded.items) :
                        loader.mappings[j].target
                           = target_of(agents_loaded.items[i].value)
            /\ \A j, k \in 1..Len(loader.mappings) :
                  j # k => loader.mappings[j].target # loader.mappings[k].target
       ELSE /\ ~loader.ok
            /\ loader.mappings = <<>>

\* [Claude, claude, GEMINI] with truth_memory_file NOTES.md loaded as two
\* mappings
C22_Witness ==
    /\ loader.called
    /\ loader.ok
    /\ agents_loaded.items = <<Agent("Claude"), Agent("claude"), Agent("GEMINI")>>
    /\ loader.mappings = <<[target |-> <<"CLAUDE.md">>, source |-> <<"NOTES.md">>],
                           [target |-> <<"GEMINI.md">>, source |-> <<"NOTES.md">>]>>

\* the entries of the path list: the empty string is one entry, which
\* resolves to the working directory
entries_given ==
    IF environ.set /\ environ.value # <<>> THEN environ.value ELSE <<Cwd>>

existing_directory(e) == e \in dirs

\* C23: the directories start() scans, which are the result of
\* resolve_paths, are exactly the entries of the path list that resolve to an
\* existing directory, in the order of the list; an entry that does not exist
\* or names a file is dropped and the entries after it are still returned.
C23_ResolvePaths ==
    watcher.pc # "init"
    => watcher.scanned = SelectSeq(entries_given, existing_directory)

\* the list "R/missing:R" resolved to R alone
C23_Witness ==
    /\ watcher.pc # "init"
    /\ environ.value = <<Missing, Root>>
    /\ watcher.scanned = <<Root>>

\* the calls of on_modified that have returned after a propagation pass
returned_passes ==
    {t \in DOMAIN threads :
        threads[t].pc = "idle" /\ threads[t].kind = "processed"}

\* C24: a call of on_modified that passed the gate calls start_sync once and
\* returns with the syncing flag reset; finish_sync is called exactly once
\* when targets were resolved and propagation completed, and not at all when
\* no target was resolved or an exception passed through the try block,
\* where the finally clause resets the flag and last_sync_time keeps its
\* value.
C24_Bracketing ==
    /\ \A t \in returned_passes :
          /\ threads[t].starts = 1
          /\ threads[t].finishes = IF threads[t].targets # <<>> THEN 1 ELSE 0
          /\ ~debouncer.syncing
    /\ \A t \in DOMAIN threads :
          /\ threads[t].pc = "try"
             => (debouncer.syncing /\ threads[t].starts = 1
                 /\ threads[t].finishes = 0)
          /\ (threads[t].pc = "idle" /\ threads[t].kind # "processed")
             => (threads[t].starts = 0 /\ threads[t].finishes = 0)
    /\ ~try_synced(start_sync(debouncer), pairs_beside(RootTruth), now,
                   RaisedPass).finished
    /\ ~finally_clause(try_synced(start_sync(debouncer),
                                  pairs_beside(RootTruth), now,
                                  RaisedPass).d).syncing

\* a pass that resolved a target returned after one start_sync and one
\* finish_sync
C24_Witness ==
    /\ returned_passes # {}
    /\ \A t \in returned_passes :
          /\ threads[t].targets # <<>>
          /\ threads[t].starts = 1
          /\ threads[t].finishes = 1
    /\ debouncer.last_sync_time = now
    /\ ~debouncer.syncing

\* C24 as stated: every call that called start_sync has called finish_sync
\* exactly once when it returns.
C24_AsStated ==
    \A t \in returned_passes : threads[t].finishes = threads[t].starts

C26_ExceptionCaught ==
    \A t \in DOMAIN threads :
        threads[t].kind # "raised" /\ threads[t].pc # "dead"

\* thread t has entered on_modified in this step for a file event
Entering(t) ==
    /\ threads[t].pc = "idle"
    /\ threads'[t] # threads[t]
    /\ threads'[t].kind # "raised"

\* the gitignore rules of the tree ignore p
rules_ignore(p) ==
    is_ignored(world, gitignores, Root, [q \in {} |-> <<>>], p).ignored

\* C27: a call of on_modified for a directory event, or for a path the
\* handler's gitignore filter ignores, returns with no file written and the
\* debouncer unchanged; a path the filter ignores is dropped as ignored also
\* while the debouncer would debounce it (the filter is asked first); and
\* with respect_gitignore false the filter is not asked: nothing is dropped
\* as ignored and the spec cache stays empty.
C27_EventFiltering ==
    [][\A t \in DOMAIN threads :
          Entering(t)
          => /\ threads'[t].kind \in {"directory", "ignored"}
                => /\ threads'[t].pc = "idle"
                   /\ fs' = fs
                   /\ dirs' = dirs
                   /\ debouncer' = debouncer
                   /\ observer'.written = observer.written
             /\ threads'[t].event.is_directory
                => threads'[t].kind = "directory"
             /\ (/\ config.respect_gitignore
                 /\ ~threads'[t].event.is_directory
                 /\ rules_ignore(threads'[t].event.src_path))
                => threads'[t].kind = "ignored"
             /\ ~config.respect_gitignore
                => /\ threads'[t].kind # "ignored"
                   /\ spec_cache' = [q \in {} |-> <<>>]]_vars

\* the event for docs/AGENT.md was dropped as ignored inside the debounce
\* window of a completed pass
C27_Witness ==
    /\ \E t \in DOMAIN threads :
          /\ threads[t].pc = "idle"
          /\ threads[t].kind = "ignored"
          /\ threads[t].event.src_path = join(Docs, <<"AGENT.md">>)
    /\ debouncer.last_sync_time > 0
    /\ now - debouncer.last_sync_time < DEBOUNCE_DELAY
    /\ observer.written = 1

\* C28: a call of on_modified that passes the gate and resolves no target
\* writes no file and leaves the debouncer as it was, last_sync_time
\* included; so an event is debounced only inside the window of a completed
\* pass that had targets, never because of an event on an unrelated file.
C28_NoTargetNoWindow ==
    [][/\ (last'.kind = "processed" /\ last'.targets = <<>>)
          => /\ fs' = fs
             /\ dirs' = dirs
             /\ debouncer' = debouncer
       /\ last'.kind = "debounced"
          => /\ debouncer.last_sync_time > 0
             /\ now - debouncer.last_sync_time < DEBOUNCE_DELAY
       /\ (/\ last.kind = "processed" /\ last.targets = <<>>
           /\ debouncer.last_sync_time = 0
           /\ last'.kind \in {"debounced", "processed"})
          => last'.kind = "processed"]_vars

\* the event for the unrelated file was processed with no completed pass
\* before it, and the event for the truth file is the next to be handled
C28_Witness ==
    /\ last.kind = "processed"
    /\ last.path = Unrelated
    /\ last.targets = <<>>
    /\ debouncer.last_sync_time = 0
    /\ queue # <<>>
    /\ Head(queue).src_path = RootTruth

\* C30: once stop() has called observer.stop() no new call of on_modified
\* begins; stop() returns only when no call is in flight; and after it has
\* returned no file is written and no thread is inside a callback.
C30_Shutdown ==
    [][/\ observer.state # "running"
          => observer'.delivered = observer.delivered
       /\ observer'.state = "stopped"
          => \A t \in DOMAIN threads : threads'[t].pc \in {"idle", "dead"}
       /\ observer.state = "stopped"
          => /\ fs' = fs
             /\ dirs' = dirs
             /\ threads' = threads
             /\ observer'.written = observer.written]_vars

\* stop() was called while a callback was in flight and returned after the
\* callback had written its target
C30_Witness ==
    /\ observer.state = "stopped"
    /\ observer.stop_in_flight
    /\ observer.written > 0
    /\ \A t \in DOMAIN threads : threads[t].pc = "idle"

\* the latest step was a call of on_modified
Handled == last.kind \in {"directory", "ignored", "debounced", "processed"}

\* C29: the observer is started only when every discovered configuration
\* has been processed; no event is queued or handled before that; the writes
\* of an initial sync are never queued as change events, not even when they
\* fall inside a directory registered earlier; and every event is handled by
\* a handler that is registered, hence after its own initial sync.
C29_StartupOrdering ==
    [][/\ watcher'.started
          => (watcher'.pending = <<>> /\ watcher'.pc = "running")
       /\ ~watcher'.started => (queue' = <<>> /\ ~Handled')
       /\ \A i \in 1..Len(queue') : queue'[i].cause # "initial"
       /\ (Handled' /\ queue # <<>>)
          => /\ watcher.started
             /\ last'.cause # "initial"
             /\ handler_path(Head(queue)) \in DOMAIN watcher.handlers
             /\ InitiallySynced(watcher, fs, handler_path(Head(queue)))]_vars

\* R and then R/docs were registered, the initial sync of R/docs wrote
\* inside the watch of R, and the first event handled is the user's
C29_Witness ==
    /\ watcher.pc = "running"
    /\ Len(watcher.scheduled) = 2
    /\ watcher.scheduled[1].path = Root
    /\ watcher.scheduled[2].path = Docs
    /\ join(Docs, <<"CLAUDE.md">>) \in DOMAIN fs
    /\ nwrites = 1
    /\ last.kind = "processed"
    /\ last.cause = "user"
    /\ last.outcomes = <<"synced">>

\* the latest step was a call of is_ignored, its load failing or not
Asked == query.kind \in {"is_ignored", "load_error"}

\* C31: an entry of the spec cache is never replaced or removed, whether it
\* holds a rule set or the no-rules marker and also when it was stored after
\* a load error; a call of is_ignored for a path whose directory has an
\* entry leaves the cache as it is and gives the answer of the entry whatever
\* the .gitignore files hold now; and every call for a path gives the answer
\* the first call for it gave, also after a .gitignore was edited.
C31_CacheAppendOnly ==
    [][/\ \A d \in DOMAIN spec_cache :
             d \in DOMAIN spec_cache' /\ spec_cache'[d] = spec_cache[d]
       /\ (Asked' /\ is_relative_to(query'.path, Root)
           /\ query_directory' \in DOMAIN spec_cache)
          => /\ spec_cache' = spec_cache
             /\ query'.ignored
                   = match_file(spec_cache[query_directory'],
                                Tail(query'.path))
       /\ (Asked' /\ query'.path \in DOMAIN query.answers)
          => query'.ignored = query.answers[query'.path]]_vars

\* R/keep.tmp was ignored under "*.tmp", the root .gitignore was removed, and
\* the next call for R/keep.tmp still answers ignored
C31_Witness ==
    /\ query.kind = "is_ignored"
    /\ ~query.fresh
    /\ query.path = join(Root, <<"keep.tmp">>)
    /\ query.ignored
    /\ gitignores = [d \in {} |-> <<>>]
    /\ spec_cache[Root] = <<TmpLine>>

\* the bytes a complete copy of a source holding b leaves in the target
copied(b) == translate_newlines(universal_newlines(b))

\* the target t is after the step as it was before it
target_kept(t) ==
    \/ t \notin DOMAIN fs /\ t \notin DOMAIN fs'
    \/ t \in DOMAIN fs /\ t \in DOMAIN fs' /\ fs'[t] = fs[t]

\* the target t holds after the step the complete copy of the source f
target_copied(f, t) ==
    /\ f \in DOMAIN fs
    /\ t \in DOMAIN fs'
    /\ fs'[t] = copied(fs[f])

\* C32: after every call of sync_file, in a pass of the handler or in the
\* initial sync and also when the read or the write fails, the target is as
\* it was before the call (its previous content, or absent) or holds the
\* complete copy of the source; it is never left truncated or empty.
C32_NoPartialWrites ==
    [][last'.kind \in {"processed", "initial"}
       => \A i \in 1..Len(last'.attempted) :
             \/ target_kept(last'.attempted[i].target)
             \/ target_copied(last'.attempted[i].source,
                              last'.attempted[i].target)]_vars

\* C33: with recursive off find_sync_targets returns pairs only for the
\* path directory / source_name, so none for a file with the truth file's
\* name in a subdirectory; with recursive on or off it returns none for a
\* file outside the watched directory, the truth file's name included; it
\* never returns more pairs than there are mappings nor two pairs with one
\* target, and the source of every pair is the modified file.
C33_MatchScope ==
    last.kind = "matched"
    => /\ (~config.recursive /\ last.path # RootTruth) => last.targets = <<>>
       /\ ~is_relative_to(last.path, config.directory) => last.targets = <<>>
       /\ Len(last.targets) <= Len(config.mappings)
       /\ \A i, j \in 1..Len(last.targets) :
             i # j => last.targets[i].target # last.targets[j].target
       /\ \A i \in 1..Len(last.targets) : last.targets[i].source = last.path

\* the non-recursive matcher of two mappings returned no pair for the truth
\* file's name in docs/
C33_Witness ==
    /\ last.kind = "matched"
    /\ ~config.recursive
    /\ Len(config.mappings) = 2
    /\ last.path = NestedTruth
    /\ last.targets = <<>>

\* C34: with recursive on, an event for a truth file the user has modified
\* that is handled right after the propagation pass of a different truth
\* file of the same watched directory is not debounced: it gets its own pass.
C34_DebouncePerSource ==
    [][(/\ config.recursive
        /\ last.kind = "processed"
        /\ last.cause = "user"
        /\ last.targets # <<>>
        /\ last'.kind \in {"debounced", "processed"}
        /\ last'.cause = "user"
        /\ last'.path \in TruthPaths
        /\ last'.path # last.path
        /\ find_sync_targets(config, last'.path) # <<>>)
       => (last'.kind = "processed" /\ last'.targets # <<>>)]_vars

\* C35: with respect_gitignore on, no call of sync_file made by the initial
\* sync or by the handling of an event copies a source that the gitignore
\* rules of the watched directory ignore.
C35_IgnoredNeverPropagated ==
    [][(config.respect_gitignore /\ last'.kind \in {"initial", "processed"})
       => \A i \in 1..Len(last'.attempted) :
             last'.outcomes[i] = "synced"
             => ~rules_ignore(last'.attempted[i].source)]_vars

\* the handler's gitignore filter, asked afresh, does not ignore f
kept_by_filter(f) ==
    ~filter_verdict(config, world, gitignores, [q \in {} |-> <<>>], f).ignored

\* C36: after initial_sync with recursive on, every truth file under the
\* watched directory that the gitignore filter does not ignore, at the root
\* or in a subdirectory, has every target beside it holding the complete copy
\* of its content, as a modification event for it would leave them.
C36_InitialSyncCoversAll ==
    (last.kind = "initial" /\ config.recursive)
    => \A f \in TruthPaths :
          (f \in DOMAIN fs /\ kept_by_filter(f))
          => \A i \in 1..Len(config.mappings) :
                /\ target_beside(f, i) \in DOMAIN fs
                /\ fs[target_beside(f, i)] = copied(fs[f])

\* C37: when start() has returned True, at least one directory is
\* registered with a handler and scheduled with the observer.
C37_StartRegistersSome ==
    watcher.pc = "running"
    => /\ DOMAIN watcher.handlers # {}
       /\ watcher.watched_directories # {}
       /\ watcher.scheduled # <<>>

\* the directories scheduled with the observer
scheduled_directories ==
    {watcher.scheduled[i].path : i \in 1..Len(watcher.scheduled)}

\* the handlers registered for the directory d
handlers_of(d) ==
    {cp \in DOMAIN watcher.handlers : watcher.handlers[cp].config.directory = d}

\* C38: after every call of _add_watcher, whether it registered, skipped a
\* duplicate or failed in the loader, in the initial sync or in
\* observer.schedule, handlers and watched_directories have the same size,
\* every handler's directory is in watched_directories, every directory of
\* watched_directories has exactly one handler, and the directories
\* scheduled with the observer are those of watched_directories, each once.
C38_RegistryConsistent ==
    /\ Cardinality(DOMAIN watcher.handlers)
          = Cardinality(watcher.watched_directories)
    /\ \A cp \in DOMAIN watcher.handlers :
          watcher.handlers[cp].config.directory \in watcher.watched_directories
    /\ \A d \in watcher.watched_directories : Cardinality(handlers_of(d)) = 1
    /\ scheduled_directories = watcher.watched_directories
    /\ Len(watcher.scheduled) = Cardinality(watcher.watched_directories)

\* R was registered and the schedule of R/docs failed after its initial sync
\* had written the target
C38_Witness ==
    /\ watcher.last.kind = "unscheduled"
    /\ watcher.last.config_path = join(Docs, CONFIG_FILENAME)
    /\ watcher.watched_directories = {Root}
    /\ DOMAIN watcher.handlers = {join(Root, CONFIG_FILENAME)}
    /\ Len(watcher.scheduled) = 1
    /\ join(Docs, <<"CLAUDE.md">>) \in DOMAIN fs

====
